---- MODULE Spec2Model ----
(***************************************************************************)
(* Mission Control: dispatch-and-completion orchestration core.           *)
(*                                                                         *)
(* The store (tasks, agents, openclaw_sessions, events, task_activities,  *)
(* task_deliverables), the OpenClaw gateway client and the request        *)
(* handlers of                                                             *)
(*   POST   /api/tasks/[id]/dispatch                                       *)
(*   GET    /api/tasks/[id]/planning                                       *)
(*   POST   /api/tasks/[id]/planning                                       *)
(*   POST   /api/webhooks/agent-completion                                 *)
(*   POST   /api/agents/[id]/openclaw                                      *)
(*   DELETE /api/agents/[id]/openclaw                                      *)
(* A handler runs on the single JavaScript thread: it is atomic between   *)
(* two awaits on the gateway (or on the request body), and handlers of    *)
(* different requests interleave at those awaits.  Each action below is   *)
(* one such run-to-next-await segment of one handler.                     *)
(***************************************************************************)
EXTENDS Integers, Sequences, FiniteSets, TLC

\* ------------------------------------------------------------------------
\* Bounds of the model
\* ------------------------------------------------------------------------

\* Number of requests (handler invocations) a behaviour of Spec may receive.
MaxOps == 2

\* The same for the behaviours of SpecWebhook, SpecDispatch and SpecSessions.
MaxWebhooks == 2
MaxDispatches == 2
MaxSessionOps == 2

MaxPlanOps == 2

\* Number of assistant messages the gateway may put in one planning transcript.
MaxTranscript == 2

\* ------------------------------------------------------------------------
\* Values
\* ------------------------------------------------------------------------

\* SQL NULL / JavaScript undefined / an absent JSON field or header.
NULL == "null"

\* statusOrder of the completion webhook; TaskStatus of lib/validation.ts.
StatusOrder ==
    <<"planning", "inbox", "assigned", "in_progress", "testing", "review", "done">>

Statuses == {StatusOrder[i] : i \in 1..Len(StatusOrder)}

\* Array.prototype.indexOf: zero-based index of the first occurrence, -1 if none.
IndexOf(seq, x) ==
    IF \E i \in 1..Len(seq) : seq[i] = x
    THEN (CHOOSE i \in 1..Len(seq) :
             seq[i] = x /\ \A j \in 1..(i - 1) : seq[j] # x) - 1
    ELSE -1

\* allowedStatuses of the completion webhook (direct path).
AllowedStatuses == <<"testing", "review", "done">>

\* Array.prototype.includes
Includes(seq, x) == \E i \in 1..Len(seq) : seq[i] = x

\* Rows of the store that exist.
Tasks == {"t1", "t2"}
Agents == {"a1", "a2", "a3"}

\* Identifiers a request may carry: the rows above and one id without a row.
TaskIds == Tasks \cup {"tX"}
AgentIds == Agents \cup {"aX"}

Workspaces == {"w1", "w2"}

\* ------------------------------------------------------------------------
\* Text helpers (agent names are sequences of characters)
\* ------------------------------------------------------------------------

\* String.prototype.toLowerCase on the characters used in agent names.
ToLowerChar(c) ==
    CASE c = "D" -> "d"
      [] c = "O" -> "o"
      [] c = "Q" -> "q"
      [] c = "A" -> "a"
      [] OTHER -> c

IsSpace(c) == c = " "

\* F(x) as a call by value: x is evaluated once, before F is entered.
Call(F(_), x) == CHOOSE r \in {F(v) : v \in {x}} : TRUE

\* Math.min and Math.max over a non-empty set of numbers.
Min(S) == CHOOSE x \in S : \A y \in S : x <= y
Max(S) == CHOOSE x \in S : \A y \in S : y <= x

\* name.toLowerCase().replace(/\s+/g, '-'): every maximal run of whitespace
\* becomes one '-'.
RECURSIVE Slugify(_)
Slugify(name) ==
    IF name = <<>> THEN <<>>
    ELSE IF IsSpace(Head(name))
         THEN IF Len(name) > 1 /\ IsSpace(name[2])
              THEN Slugify(Tail(name))
              ELSE <<"-">> \o Slugify(Tail(name))
         ELSE <<ToLowerChar(Head(name))>> \o Slugify(Tail(name))

\* `mission-control-${agent.name.toLowerCase().replace(/\s+/g, '-')}`
DerivedSessionId(name) == <<"mission-control-">> \o Slugify(name)

\* `agent:main:${session.openclaw_session_id}`
DispatchSessionKey(openclawSessionId) == <<"agent:main:">> \o openclawSessionId

\* `${PLANNING_SESSION_PREFIX}${taskId}`
PlanningSessionKey(taskId) == <<"agent:main:planning:", taskId>>

\* ------------------------------------------------------------------------
\* State
\* ------------------------------------------------------------------------

VARIABLES
    tasks,          \* table tasks: id -> row
    agents,         \* table agents: id -> row
    sessions,       \* table openclaw_sessions, in insertion order
    events,         \* table events, in insertion order
    activities,     \* table task_activities, in insertion order
    deliverables,   \* table task_deliverables, in insertion order
    webhookSecret,  \* process.env.WEBHOOK_SECRET (NULL when not configured)
    connected,      \* OpenClaw client: isConnected()
    gwCalls,        \* connect, listSessions and chat.send calls issued, in order
    transcript,     \* gateway side: assistant messages of each planning session
    inflight,       \* handlers suspended at an await, with their local variables
    nreq,           \* requests received so far; also the clock behind new Date()
    resp,           \* the HTTP response returned last
    limit           \* number of requests the behaviour may receive

store == <<tasks, agents, sessions, events, activities, deliverables>>
gateway == <<connected, gwCalls, transcript>>
env == <<webhookSecret, limit>>
vars == <<tasks, agents, sessions, events, activities, deliverables,
          webhookSecret, connected, gwCalls, transcript, inflight, nreq, resp,
          limit>>

\* Agent names: "Dev Ops", "QA", "dev-ops".
AgentName(a) ==
    CASE a = "a1" -> <<"D", "e", "v", " ", "O", "p", "s">>
      [] a = "a2" -> <<"Q", "A">>
      [] OTHER -> <<"d", "e", "v", "-", "o", "p", "s">>

NoResp ==
    [id |-> 0, op |-> "none", req |-> NULL, code |-> 0, data |-> [error |-> "none"]]

\* NextResponse.json(data, {status: code}) of request `id`.
Respond(id, op, req, code, data) ==
    resp' = [id |-> id, op |-> op, req |-> req, code |-> code, data |-> data]

\* new Date().toISOString(), read while request number nreq + 1 is being
\* handled or after it: two readings between the same two arrivals are equal.
Now == nreq

\* A faulty variant of ActiveSessionsOf: the query without its status filter.
ActiveSessionsOfAnyStatus(agentId) ==
    {i \in 1..Len(sessions) : sessions[i].agent_id = agentId}

\* A faulty variant of ActiveSessionsOf: the query with the filter
\* status = 'inactive'.
ActiveSessionsOfInactive(agentId) ==
    {i \in 1..Len(sessions) :
        sessions[i].agent_id = agentId /\ sessions[i].status = "inactive"}

\* SELECT * FROM openclaw_sessions WHERE agent_id = ? AND status = 'active'
\* (the row indices; queryOne returns one of them)
ActiveSessionsOf(agentId) ==
    {i \in 1..Len(sessions) :
        sessions[i].agent_id = agentId /\ sessions[i].status = "active"}

\* queryOne over a set of matching rows: no row (0) or any one of the rows,
\* the query having no ORDER BY.
QueryOne(rows) == IF rows = {} THEN {0} ELSE rows

SessionRow(agentId, openclawSessionId) ==
    [agent_id |-> agentId, openclaw_session_id |-> openclawSessionId,
     channel |-> "mission-control", status |-> "active"]

EventRow(type, agentId, taskId, message) ==
    [type |-> type, agent_id |-> agentId, task_id |-> taskId, message |-> message]

ActivityRow(taskId, agentId, type, message) ==
    [task_id |-> taskId, agent_id |-> agentId, activity_type |-> type,
     message |-> message]

GwCall(method, sessionKey, message) ==
    [method |-> method, sessionKey |-> sessionKey, message |-> message]

\* JavaScript truthiness of a string-valued header, field or env value:
\* absent and the empty string are falsy.
Truthy(v) == v # NULL /\ v # ""

\* A handler suspended at an await.
Proc(id, kind, pc, target, locals) ==
    [id |-> id, kind |-> kind, pc |-> pc, target |-> target, locals |-> locals]

\* Outcome of an awaited gateway call: it resolves or it rejects.
Outcomes == {"ok", "fail"}

\* ------------------------------------------------------------------------
\* POST /api/tasks/[id]/dispatch
\* ------------------------------------------------------------------------

\* A faulty variant of OtherOrchestrators: the query without its
\* status != 'offline' filter.
OtherOrchestratorsAnyStatus(agentId, workspaceId) ==
    {a \in Agents :
        /\ agents[a].is_master
        /\ a # agentId
        /\ agents[a].workspace_id = workspaceId}

\* SELECT id, name, role FROM agents WHERE is_master = 1 AND id != ?
\*   AND workspace_id = ? AND status != 'offline'
OtherOrchestrators(agentId, workspaceId) ==
    {a \in Agents :
        /\ agents[a].is_master
        /\ a # agentId
        /\ agents[a].workspace_id = workspaceId
        /\ agents[a].status # "offline"}

\* A faulty variant of DispatchGetSessionAndSend: the routing key is always
\* made from the agent's name, whatever session was found.
DispatchGetSessionAndSendByName(rid, taskId, loaded, now, p) ==
    \E si \in QueryOne(ActiveSessionsOf(loaded.agent)) :
        LET agentId == loaded.agent
            openclawSessionId ==
                DerivedSessionId(loaded.agentRow.name)
        IN  /\ IF si = 0
               THEN /\ sessions' = Append(sessions,
                                          SessionRow(agentId, openclawSessionId))
                    /\ events' = Append(events,
                                        EventRow("agent_status_changed", agentId,
                                                 NULL, <<"session created">>))
               ELSE UNCHANGED <<sessions, events>>
            /\ gwCalls' = Append(gwCalls,
                                 GwCall("chat.send",
                                        DispatchSessionKey(openclawSessionId),
                                        <<"NEW TASK ASSIGNED", taskId>>))
            /\ inflight' = (inflight \ p) \cup
                   {Proc(rid, "dispatch", "send", taskId,
                         [agent |-> agentId, task |-> loaded.task,
                          agentRow |-> loaded.agentRow,
                          session |-> openclawSessionId, now |-> now])}

\* Get or create the agent's session, then issue chat.send and suspend on it.
\* `loaded` holds the handler's locals `task` and `agent` (the rows as they
\* were read on arrival); `p` is the suspended handler being resumed ({} when
\* the handler has not been suspended yet).
DispatchGetSessionAndSend(rid, taskId, loaded, now, p) ==
    \E si \in QueryOne(ActiveSessionsOf(loaded.agent)) :
        LET agentId == loaded.agent
            openclawSessionId ==
                IF si = 0 THEN DerivedSessionId(loaded.agentRow.name)
                ELSE sessions[si].openclaw_session_id
        IN  /\ IF si = 0
               THEN /\ sessions' = Append(sessions,
                                          SessionRow(agentId, openclawSessionId))
                    /\ events' = Append(events,
                                        EventRow("agent_status_changed", agentId,
                                                 NULL, <<"session created">>))
               ELSE UNCHANGED <<sessions, events>>
            /\ gwCalls' = Append(gwCalls,
                                 GwCall("chat.send",
                                        DispatchSessionKey(openclawSessionId),
                                        <<"NEW TASK ASSIGNED", taskId>>))
            /\ inflight' = (inflight \ p) \cup
                   {Proc(rid, "dispatch", "send", taskId,
                         [agent |-> agentId, task |-> loaded.task,
                          agentRow |-> loaded.agentRow,
                          session |-> openclawSessionId, now |-> now])}

\* A faulty variant of DispatchStart: the gateway connection is asked for
\* before the task and its agent are validated.
DispatchStartConnectFirst(id) ==
    LET rid == nreq + 1 IN
    /\ nreq < limit
    /\ nreq' = rid
    /\ UNCHANGED <<tasks, agents, activities, deliverables, env,
                   connected, transcript>>
    /\ IF id \notin Tasks
       THEN /\ Respond(rid, "dispatch", id, 404, [error |-> "Task not found"])
            /\ gwCalls' = IF connected THEN gwCalls
                          ELSE Append(gwCalls, GwCall("connect", <<>>, <<>>))
            /\ UNCHANGED <<sessions, events, inflight>>
       ELSE IF ~Truthy(tasks[id].assigned_agent_id)
       THEN /\ Respond(rid, "dispatch", id, 400, [error |-> "Task has no assigned agent"])
            /\ gwCalls' = IF connected THEN gwCalls
                          ELSE Append(gwCalls, GwCall("connect", <<>>, <<>>))
            /\ UNCHANGED <<sessions, events, inflight>>
       ELSE IF tasks[id].assigned_agent_id \notin Agents
       THEN /\ Respond(rid, "dispatch", id, 404, [error |-> "Assigned agent not found"])
            /\ gwCalls' = IF connected THEN gwCalls
                          ELSE Append(gwCalls, GwCall("connect", <<>>, <<>>))
            /\ UNCHANGED <<sessions, events, inflight>>
       ELSE LET agentId == tasks[id].assigned_agent_id
                loaded == [agent |-> agentId, task |-> tasks[id],
                           agentRow |-> agents[agentId]]
                others == OtherOrchestrators(agentId, tasks[id].workspace_id)
            IN  IF agents[agentId].is_master /\ others # {}
                THEN /\ Respond(rid, "dispatch", id, 409,
                                [warning |-> "Other orchestrators available",
                                 otherOrchestrators |-> others])
                     /\ UNCHANGED <<sessions, events, gwCalls, inflight>>
                ELSE IF ~connected
                THEN /\ gwCalls' = Append(gwCalls, GwCall("connect", <<>>, <<>>))
                     /\ inflight' = inflight \cup
                            {Proc(rid, "dispatch", "connect", id, loaded)}
                     /\ UNCHANGED <<sessions, events, resp>>
                ELSE /\ DispatchGetSessionAndSend(rid, id, loaded, rid, {})
                     /\ UNCHANGED resp

\* From the arrival of the request to its first await or its early return.
DispatchStart(id) ==
    LET rid == nreq + 1 IN
    /\ nreq < limit
    /\ nreq' = rid
    /\ UNCHANGED <<tasks, agents, activities, deliverables, env,
                   connected, transcript>>
    /\ IF id \notin Tasks
       THEN /\ Respond(rid, "dispatch", id, 404, [error |-> "Task not found"])
            /\ UNCHANGED <<sessions, events, gwCalls, inflight>>
       ELSE IF ~Truthy(tasks[id].assigned_agent_id)
       THEN /\ Respond(rid, "dispatch", id, 400, [error |-> "Task has no assigned agent"])
            /\ UNCHANGED <<sessions, events, gwCalls, inflight>>
       ELSE IF tasks[id].assigned_agent_id \notin Agents
       THEN /\ Respond(rid, "dispatch", id, 404, [error |-> "Assigned agent not found"])
            /\ UNCHANGED <<sessions, events, gwCalls, inflight>>
       ELSE LET agentId == tasks[id].assigned_agent_id
                loaded == [agent |-> agentId, task |-> tasks[id],
                           agentRow |-> agents[agentId]]
                others == OtherOrchestrators(agentId, tasks[id].workspace_id)
            IN  IF agents[agentId].is_master /\ others # {}
                THEN /\ Respond(rid, "dispatch", id, 409,
                                [warning |-> "Other orchestrators available",
                                 otherOrchestrators |-> others])
                     /\ UNCHANGED <<sessions, events, gwCalls, inflight>>
                ELSE IF ~connected
                THEN /\ gwCalls' = Append(gwCalls, GwCall("connect", <<>>, <<>>))
                     /\ inflight' = inflight \cup
                            {Proc(rid, "dispatch", "connect", id, loaded)}
                     /\ UNCHANGED <<sessions, events, resp>>
                ELSE /\ DispatchGetSessionAndSend(rid, id, loaded, rid, {})
                     /\ UNCHANGED resp

\* client.connect() settles: 503 on rejection, else on to the session and send.
DispatchConnected(p, outcome) ==
    /\ p \in inflight /\ p.kind = "dispatch" /\ p.pc = "connect"
    /\ UNCHANGED <<tasks, agents, activities, deliverables, env,
                   transcript, nreq>>
    /\ IF outcome = "fail"
       THEN /\ Respond(p.id, "dispatch", p.target, 503,
                       [error |-> "Failed to connect to OpenClaw Gateway"])
            /\ inflight' = inflight \ {p}
            /\ UNCHANGED <<sessions, events, gwCalls, connected>>
       ELSE /\ connected' = TRUE
            /\ DispatchGetSessionAndSend(p.id, p.target, p.locals, Now, {p})
            /\ UNCHANGED resp

\* The writes that follow a resolved chat.send.
DispatchWrites(p) ==
    /\ tasks' = [tasks EXCEPT ![p.target].status = "in_progress",
                              ![p.target].updated_at = p.locals.now]
    /\ agents' = [agents EXCEPT ![p.locals.agent].status = "working"]
    /\ events' = Append(events,
                        EventRow("task_dispatched", p.locals.agent, p.target,
                                 <<"dispatched">>))
    /\ activities' = Append(activities,
                            ActivityRow(p.target, p.locals.agent, "status_changed",
                                        "Task dispatched"))

\* A faulty variant of DispatchSent: the state update is made before the
\* outcome of chat.send is looked at.
DispatchSentEager(p, outcome) ==
    /\ p \in inflight /\ p.kind = "dispatch" /\ p.pc = "send"
    /\ inflight' = inflight \ {p}
    /\ UNCHANGED <<sessions, deliverables, env, connected, gwCalls,
                   transcript, nreq>>
    /\ DispatchWrites(p)
    /\ IF outcome = "ok"
       THEN Respond(p.id, "dispatch", p.target, 200,
                    [success |-> TRUE, task_id |-> p.target,
                     agent_id |-> p.locals.agent,
                     session_id |-> p.locals.session])
       ELSE Respond(p.id, "dispatch", p.target, 500, [error |-> "Internal server error"])

\* chat.send settles: the state update and 200, or 500 on rejection.
DispatchSent(p, outcome) ==
    /\ p \in inflight /\ p.kind = "dispatch" /\ p.pc = "send"
    /\ inflight' = inflight \ {p}
    /\ UNCHANGED <<sessions, deliverables, env, connected, gwCalls,
                   transcript, nreq>>
    /\ IF outcome = "ok"
       THEN /\ DispatchWrites(p)
            /\ Respond(p.id, "dispatch", p.target, 200,
                       [success |-> TRUE, task_id |-> p.target,
                        agent_id |-> p.locals.agent,
                        session_id |-> p.locals.session])
       ELSE /\ Respond(p.id, "dispatch", p.target, 500, [error |-> "Internal server error"])
            /\ UNCHANGED <<tasks, agents, events, activities>>

\* ------------------------------------------------------------------------
\* POST /api/webhooks/agent-completion
\* ------------------------------------------------------------------------

\* createHmac('sha256', secret).update(rawBody).digest('hex'), as an ideal
\* MAC: two digests are equal exactly when key and message are equal.
Hmac(secret, rawBody) == <<"hmac-sha256", secret, rawBody>>

\* The same for values the model writes as tuples (digests, session ids,
\* names): the empty tuple stands for absent or empty.
None == <<>>
Present(v) == v # None

VerifyWebhookSignature(signature, rawBody) ==
    IF ~Truthy(webhookSecret) THEN TRUE
    ELSE IF ~Present(signature) THEN FALSE
    ELSE signature = Hmac(webhookSecret, rawBody)

\* A faulty variant of SignatureGate: the header is verified whether or not
\* a secret is configured.
SignatureGateAlways(signature, rawBody) ==
    Present(signature) /\ signature = Hmac(webhookSecret, rawBody)

\* A faulty variant of SignatureGate: a request without the header is let
\* through.
SignatureGateLax(signature, rawBody) ==
    IF Truthy(webhookSecret) /\ Present(signature)
    THEN VerifyWebhookSignature(signature, rawBody)
    ELSE TRUE

\* The signature gate of the handler: TRUE when the request is let through.
SignatureGate(signature, rawBody) ==
    IF Truthy(webhookSecret)
    THEN ~(~Present(signature) \/ ~VerifyWebhookSignature(signature, rawBody))
    ELSE TRUE

\* allowedStatuses.includes(body.status) ? body.status : 'testing'
TargetStatus(payloadStatus) ==
    IF Includes(AllowedStatuses, payloadStatus) THEN payloadStatus ELSE "testing"

\* Faulty variants of NewStatus: the target is taken whatever the current
\* status is; the comparison is reversed.
NewStatusUnordered(current, target) == target

NewStatusBackward(current, target) ==
    IF IndexOf(StatusOrder, target) < IndexOf(StatusOrder, current)
    THEN target ELSE current

\* targetIdx > currentIdx ? targetStatus : task.status
NewStatus(current, target) ==
    IF IndexOf(StatusOrder, target) > IndexOf(StatusOrder, current)
    THEN target ELSE current

\* A faulty variant of SummaryOrDefault: the summary without its default.
SummaryRaw(summary) == summary

\* body.summary || 'Task finished'
SummaryOrDefault(summary) == IF Truthy(summary) THEN summary ELSE "Task finished"

\* One row of task_deliverables per payload entry.
DeliverableRow(taskId, d) ==
    [task_id |-> taskId,
     deliverable_type |-> IF Truthy(d.type) THEN d.type ELSE "file",
     title |-> d.title,
     path |-> IF Truthy(d.path) THEN d.path ELSE NULL]

\* A faulty variant of DeliverableRows: rows the table already holds are
\* left out, as a unique key would do.
DeliverableRowsOnce(taskId, ds) ==
    SelectSeq([i \in 1..Len(ds) |-> DeliverableRow(taskId, ds[i])],
              LAMBDA row : \A j \in 1..Len(deliverables) : deliverables[j] # row)

DeliverableRows(taskId, ds) ==
    [i \in 1..Len(ds) |-> DeliverableRow(taskId, ds[i])]

\* a.name of the LEFT JOIN: NULL when the task has no agent row.
AssignedAgentName(taskId) ==
    IF tasks[taskId].assigned_agent_id \in Agents
    THEN agents[tasks[taskId].assigned_agent_id].name ELSE None

\* UPDATE agents SET status = ? WHERE id = ?  (no row, no change)
SetAgentStatus(agentId, status) ==
    IF agentId \in Agents
    THEN [agents EXCEPT ![agentId].status = status]
    ELSE agents

\* A faulty variant of WebhookDirect: INSERT OR REPLACE of the deliverables,
\* which drops the rows equal to the new ones before it inserts them.
WebhookDirectUpsert(rid, req, body) ==
    IF body.task_id \notin Tasks
    THEN /\ Respond(rid, "webhook", req, 404, [error |-> "Task not found"])
         /\ UNCHANGED store
    ELSE LET task == tasks[body.task_id]
             targetStatus == TargetStatus(body.status)
             newStatus == NewStatus(task.status, targetStatus)
             ds == IF body.deliverables.present THEN body.deliverables.list
                   ELSE <<>>
         IN  /\ tasks' = IF newStatus # task.status
                         THEN [tasks EXCEPT ![body.task_id].status = newStatus,
                                            ![body.task_id].updated_at = rid]
                         ELSE tasks
             /\ deliverables' =
                    SelectSeq(deliverables,
                              LAMBDA row : \A k \in 1..Len(ds) :
                                 row # DeliverableRow(body.task_id, ds[k]))
                    \o DeliverableRows(body.task_id, ds)
             /\ activities' = Append(activities,
                    ActivityRow(body.task_id, task.assigned_agent_id, "completed",
                                SummaryOrDefault(body.summary)))
             /\ events' = Append(events,
                    EventRow("task_completed", task.assigned_agent_id, body.task_id,
                             <<AssignedAgentName(body.task_id), "completed:",
                               SummaryOrDefault(body.summary)>>))
             /\ agents' = IF Truthy(task.assigned_agent_id)
                          THEN SetAgentStatus(task.assigned_agent_id, "standby")
                          ELSE agents
             /\ UNCHANGED sessions
             /\ Respond(rid, "webhook", req, 200,
                        [task_id |-> body.task_id, new_status |-> newStatus,
                         deliverables_registered |-> Len(ds)])

\* The direct path: body.task_id is present.
WebhookDirect(rid, req, body) ==
    IF body.task_id \notin Tasks
    THEN /\ Respond(rid, "webhook", req, 404, [error |-> "Task not found"])
         /\ UNCHANGED store
    ELSE LET task == tasks[body.task_id]
             targetStatus == TargetStatus(body.status)
             newStatus == NewStatus(task.status, targetStatus)
             ds == IF body.deliverables.present THEN body.deliverables.list
                   ELSE <<>>
         IN  /\ tasks' = IF newStatus # task.status
                         THEN [tasks EXCEPT ![body.task_id].status = newStatus,
                                            ![body.task_id].updated_at = rid]
                         ELSE tasks
             /\ deliverables' = deliverables \o DeliverableRows(body.task_id, ds)
             /\ activities' = Append(activities,
                    ActivityRow(body.task_id, task.assigned_agent_id, "completed",
                                SummaryOrDefault(body.summary)))
             /\ events' = Append(events,
                    EventRow("task_completed", task.assigned_agent_id, body.task_id,
                             <<AssignedAgentName(body.task_id), "completed:",
                               SummaryOrDefault(body.summary)>>))
             /\ agents' = IF Truthy(task.assigned_agent_id)
                          THEN SetAgentStatus(task.assigned_agent_id, "standby")
                          ELSE agents
             /\ UNCHANGED sessions
             /\ Respond(rid, "webhook", req, 200,
                        [task_id |-> body.task_id, new_status |-> newStatus,
                         deliverables_registered |-> Len(ds)])

\* body.message.match(/TASK_COMPLETE:\s*(.+)/i): a message is its marker (as
\* written by the sender) and the text after it; the pattern needs the
\* marker in any letter case and at least one character after it.
CompletionMatch(message) ==
    message.marker \in {"TASK_COMPLETE:", "task_complete:"} /\ message.rest # <<>>

\* Truthiness of body.message: absent and the empty text are falsy.
HasText(message) == message.marker # "" \/ message.rest # <<>>

\* String.prototype.trim on a sequence of characters: what lies between the
\* first and the last character that is not white space.
TrimLeft(text) ==
    Call(LAMBDA keep : IF keep = {} THEN <<>>
                       ELSE SubSeq(text, Min(keep), Len(text)),
         {i \in 1..Len(text) : ~IsSpace(text[i])})

TrimRight(text) ==
    Call(LAMBDA keep : IF keep = {} THEN <<>>
                       ELSE SubSeq(text, 1, Max(keep)),
         {i \in 1..Len(text) : ~IsSpace(text[i])})

Trim(text) == Call(TrimRight, TrimLeft(text))

\* SELECT * FROM openclaw_sessions WHERE openclaw_session_id = ? AND status = 'active'
ActiveSessionsWithId(openclawSessionId) ==
    {i \in 1..Len(sessions) :
        /\ sessions[i].openclaw_session_id = openclawSessionId
        /\ sessions[i].status = "active"}

\* A faulty variant of ActiveTasksOf: the query without its ORDER BY.
ActiveTasksOfAnyAge(agentId) ==
    {t \in Tasks :
        /\ tasks[t].assigned_agent_id = agentId
        /\ tasks[t].status \in {"assigned", "in_progress"}}

\* SELECT ... WHERE t.assigned_agent_id = ? AND t.status IN ('assigned',
\* 'in_progress') ORDER BY t.updated_at DESC LIMIT 1: the candidates that no
\* other candidate is more recent than.
ActiveTasksOf(agentId) ==
    LET cand == {t \in Tasks :
                    /\ tasks[t].assigned_agent_id = agentId
                    /\ tasks[t].status \in {"assigned", "in_progress"}}
    IN  {t \in cand : \A u \in cand : tasks[u].updated_at <= tasks[t].updated_at}

\* The legacy path: body.session_id and body.message are present.
WebhookLegacy(rid, req, body) ==
    IF ~CompletionMatch(body.message)
    THEN /\ Respond(rid, "webhook", req, 400, [error |-> "Invalid completion message format"])
         /\ UNCHANGED store
    ELSE \E si \in QueryOne(ActiveSessionsWithId(body.session_id)) :
        IF si = 0
        THEN /\ Respond(rid, "webhook", req, 404, [error |-> "Session not found or inactive"])
             /\ UNCHANGED store
        ELSE LET agentId == sessions[si].agent_id IN
             IF ActiveTasksOf(agentId) = {}
             THEN /\ Respond(rid, "webhook", req, 404,
                             [error |-> "No active task found for this agent"])
                  /\ UNCHANGED store
             ELSE \E t \in ActiveTasksOf(agentId) :
                  /\ tasks' = IF tasks[t].status \notin {"testing", "review", "done"}
                              THEN [tasks EXCEPT ![t].status = "testing",
                                                 ![t].updated_at = rid]
                              ELSE tasks
                  /\ events' = Append(events,
                         EventRow("task_completed", agentId, t,
                                  <<AssignedAgentName(t), "completed:",
                                    Trim(body.message.rest)>>))
                  /\ agents' = SetAgentStatus(agentId, "standby")
                  /\ UNCHANGED <<sessions, activities, deliverables>>
                  /\ Respond(rid, "webhook", req, 200,
                             [task_id |-> t, agent_id |-> agentId,
                              summary |-> Trim(body.message.rest),
                              new_status |-> "testing"])

\* The whole handler: it has no await after the body has been read.
Webhook(body, signature) ==
    LET rid == nreq + 1
        req == [body |-> body, signature |-> signature]
    IN
    /\ nreq < limit
    /\ nreq' = rid
    /\ UNCHANGED <<env, connected, gwCalls, transcript, inflight>>
    /\ IF ~SignatureGate(signature, body)
       THEN /\ Respond(rid, "webhook", req, 401, [error |-> "Unauthorized"])
            /\ UNCHANGED store
       ELSE IF ~body.parses
       THEN \* JSON.parse throws; the outer catch answers
            /\ Respond(rid, "webhook", req, 500, [error |-> "Internal server error"])
            /\ UNCHANGED store
       ELSE IF Truthy(body.task_id)
       THEN WebhookDirect(rid, req, body)
       ELSE IF Present(body.session_id) /\ HasText(body.message)
       THEN WebhookLegacy(rid, req, body)
       ELSE /\ Respond(rid, "webhook", req, 400, [error |-> "Invalid payload"])
            /\ UNCHANGED store

\* ------------------------------------------------------------------------
\* POST and DELETE /api/agents/[id]/openclaw
\* ------------------------------------------------------------------------

\* From the arrival of the link request to its first await or early return.
\* `explicitId` is body.openclaw_session_id (None when the body has none).
LinkStart(id, explicitId) ==
    LET rid == nreq + 1
        req == id
    IN
    /\ nreq < limit
    /\ nreq' = rid
    /\ UNCHANGED <<store, env, connected, transcript>>
    /\ IF id \notin Agents
       THEN /\ Respond(rid, "link", req, 404, [error |-> "Agent not found"])
            /\ UNCHANGED <<gwCalls, inflight>>
       ELSE \E si \in QueryOne(ActiveSessionsOf(id)) :
            IF si # 0
            THEN /\ Respond(rid, "link", req, 409,
                            [error |-> "Agent is already linked to an OpenClaw session",
                             session |-> si])
                 /\ UNCHANGED <<gwCalls, inflight>>
            ELSE /\ gwCalls' = Append(gwCalls,
                        IF ~connected THEN GwCall("connect", <<>>, <<>>)
                        ELSE GwCall("listSessions", <<>>, <<>>))
                 /\ inflight' = inflight \cup
                        {Proc(rid, "link", IF ~connected THEN "connect" ELSE "list",
                              id, [openclaw_session_id |-> explicitId])}
                 /\ UNCHANGED resp

\* client.connect() settles: 503 on rejection, else listSessions is issued.
LinkConnected(p, outcome) ==
    /\ p \in inflight /\ p.kind = "link" /\ p.pc = "connect"
    /\ UNCHANGED <<store, env, transcript, nreq>>
    /\ IF outcome = "fail"
       THEN /\ Respond(p.id, "link", p.target, 503,
                       [error |-> "Failed to connect to OpenClaw Gateway"])
            /\ inflight' = inflight \ {p}
            /\ UNCHANGED <<connected, gwCalls>>
       ELSE /\ connected' = TRUE
            /\ gwCalls' = Append(gwCalls, GwCall("listSessions", <<>>, <<>>))
            /\ inflight' = (inflight \ {p}) \cup {[p EXCEPT !.pc = "list"]}
            /\ UNCHANGED resp

\* client.listSessions() settles: 503 on rejection, else the request body is
\* awaited.
LinkListed(p, outcome) ==
    /\ p \in inflight /\ p.kind = "link" /\ p.pc = "list"
    /\ UNCHANGED <<store, env, connected, gwCalls, transcript, nreq>>
    /\ IF outcome = "fail"
       THEN /\ Respond(p.id, "link", p.target, 503,
                       [error |-> "Connected but failed to communicate with OpenClaw Gateway"])
            /\ inflight' = inflight \ {p}
       ELSE /\ inflight' = (inflight \ {p}) \cup {[p EXCEPT !.pc = "body"]}
            /\ UNCHANGED resp

\* The events of a link and of an unlink: `${agent.name} connected to OpenClaw
\* Gateway`, `${agent.name} disconnected from OpenClaw Gateway`.
LinkEvent(agentId) ==
    EventRow("agent_status_changed", agentId, NULL,
             <<"connected to OpenClaw Gateway">>)

UnlinkEvent(agentId) ==
    EventRow("agent_status_changed", agentId, NULL,
             <<"disconnected from OpenClaw Gateway">>)

\* body.openclaw_session_id || `mission-control-${...}`
LinkSessionId(agentId, explicitId) ==
    IF Present(explicitId) THEN explicitId
    ELSE DerivedSessionId(agents[agentId].name)

\* request.json() settles: the session row and its event are inserted.
LinkStore(p) ==
    /\ p \in inflight /\ p.kind = "link" /\ p.pc = "body"
    /\ inflight' = inflight \ {p}
    /\ sessions' = Append(sessions,
           SessionRow(p.target,
                      LinkSessionId(p.target, p.locals.openclaw_session_id)))
    /\ events' = Append(events, LinkEvent(p.target))
    /\ Respond(p.id, "link", p.target, 201,
               [linked |-> TRUE, session |-> Len(sessions) + 1])
    /\ UNCHANGED <<tasks, agents, activities, deliverables, env,
                   connected, gwCalls, transcript, nreq>>

\* A faulty variant of Unlink: the UPDATE selects by agent instead of by the
\* id of the row that was read.
UnlinkEverySession(id) ==
    LET rid == nreq + 1 IN
    /\ nreq < limit
    /\ nreq' = rid
    /\ UNCHANGED <<tasks, agents, activities, deliverables, env,
                   connected, gwCalls, transcript, inflight>>
    /\ IF id \notin Agents
       THEN /\ Respond(rid, "unlink", id, 404, [error |-> "Agent not found"])
            /\ UNCHANGED <<sessions, events>>
       ELSE IF ActiveSessionsOf(id) = {}
       THEN /\ Respond(rid, "unlink", id, 404,
                       [error |-> "Agent is not linked to an OpenClaw session"])
            /\ UNCHANGED <<sessions, events>>
       ELSE /\ sessions' = [i \in 1..Len(sessions) |->
                               IF sessions[i].agent_id = id
                               THEN [sessions[i] EXCEPT !.status = "inactive"]
                               ELSE sessions[i]]
            /\ events' = Append(events, UnlinkEvent(id))
            /\ Respond(rid, "unlink", id, 200,
                       [linked |-> FALSE, success |-> TRUE])

\* DELETE: the whole handler, which has no await between its check and its
\* writes.
Unlink(id) ==
    LET rid == nreq + 1 IN
    /\ nreq < limit
    /\ nreq' = rid
    /\ UNCHANGED <<tasks, agents, activities, deliverables, env,
                   connected, gwCalls, transcript, inflight>>
    /\ IF id \notin Agents
       THEN /\ Respond(rid, "unlink", id, 404, [error |-> "Agent not found"])
            /\ UNCHANGED <<sessions, events>>
       ELSE \E si \in QueryOne(ActiveSessionsOf(id)) :
            IF si = 0
            THEN /\ Respond(rid, "unlink", id, 404,
                            [error |-> "Agent is not linked to an OpenClaw session"])
                 /\ UNCHANGED <<sessions, events>>
            ELSE /\ sessions' = [sessions EXCEPT ![si].status = "inactive"]
                 /\ events' = Append(events, UnlinkEvent(id))
                 /\ Respond(rid, "unlink", id, 200,
                            [linked |-> FALSE, success |-> TRUE])

\* ------------------------------------------------------------------------
\* GET and POST /api/tasks/[id]/planning
\* ------------------------------------------------------------------------

\* for (let i = 0; i < 30; i++)
MaxPollAttempts == 30

Message(role, content) == [role |-> role, content |-> content]

\* The planning prompt of a task (its text is a function of the task alone).
PlanningPrompt(taskId) == <<"PLANNING REQUEST", taskId>>

\* A reply is a sequence of tokens: the braces, a code fence (three
\* backticks), the word json, white space, the member "question": ..., a
\* number literal, a word of prose.
Tokens == {"{", "}", "fence", "json", " ", "q", "7", "x"}

\* Values of JSON.parse and extractJSON: an object (with or without the key
\* question), a number, null.  SyntaxError stands for a parse that throws.
JsonObject(hasQuestion) == [kind |-> "object", question |-> hasQuestion]
JsonNumber == [kind |-> "number", question |-> FALSE]
JsonNull == [kind |-> "null", question |-> FALSE]
SyntaxError == [kind |-> "SyntaxError", question |-> FALSE]

\* JSON.parse: white space around the tokens of a value is skipped; the
\* values that can be written with the tokens are a number, the empty object
\* and the object with the member question.  Anything else throws.
JsonParse(text) ==
    Call(LAMBDA t : CASE t = <<"7">> -> JsonNumber
                      [] t = <<"{", "}">> -> JsonObject(FALSE)
                      [] t = <<"{", "q", "}">> -> JsonObject(TRUE)
                      [] OTHER -> SyntaxError,
         SelectSeq(text, LAMBDA c : ~IsSpace(c)))

\* One-based positions of a token in a text.
PositionsOf(text, token) == {i \in 1..Len(text) : text[i] = token}

\* text.match(/```(?:json)?\s*([\s\S]*?)```/): the match starts at the first
\* fence that has a fence after it and ends at the next fence; the group is
\* what lies between them, after an optional json and white space.
CodeBlockMatches(text) == Cardinality(PositionsOf(text, "fence")) >= 2

CodeBlockGroup(text) ==
    Call(LAMBDA open :
         Call(LAMBDA close :
              Call(TrimLeft,
                   SubSeq(text,
                          IF open + 1 < close /\ text[open + 1] = "json"
                          THEN open + 2 ELSE open + 1,
                          close - 1)),
              Min({i \in PositionsOf(text, "fence") : i > open})),
         Min(PositionsOf(text, "fence")))

\* text.indexOf('{') and text.lastIndexOf('}'), zero-based, -1 if none.
FirstBrace(text) ==
    IF PositionsOf(text, "{") = {} THEN -1 ELSE Min(PositionsOf(text, "{")) - 1

LastBrace(text) ==
    IF PositionsOf(text, "}") = {} THEN -1 ELSE Max(PositionsOf(text, "}")) - 1

\* text.slice(from, to) with zero-based from and exclusive to.
Slice(text, from, to) == SubSeq(text, from + 1, to)

\* The three strategies of extractJSON, each a JSON.parse in its own try:
\* the whole trimmed text, the group of the code block, the text from the
\* first { to the last }.
ParseDirect(text) == JsonParse(Call(Trim, text))

ParseCodeBlock(text) ==
    IF CodeBlockMatches(text)
    THEN JsonParse(Call(Trim, CodeBlockGroup(text))) ELSE SyntaxError

ParseBraces(text) ==
    Call(LAMBDA firstBrace :
         Call(LAMBDA lastBrace :
              IF firstBrace # -1 /\ lastBrace > firstBrace
              THEN JsonParse(Slice(text, firstBrace, lastBrace + 1))
              ELSE SyntaxError,
              LastBrace(text)),
         FirstBrace(text))

\* The first of the results that is not a thrown SyntaxError, null when all
\* are.
OrElse(result, next) == IF result # SyntaxError THEN result ELSE next

\* A faulty variant of ExtractJSON: the braces are tried before the code
\* block.
ExtractJSONBracesFirst(text) ==
    Call(LAMBDA direct :
         IF direct # SyntaxError THEN direct
         ELSE Call(LAMBDA braces :
                   IF braces # SyntaxError THEN braces
                   ELSE Call(LAMBDA block : OrElse(block, JsonNull),
                             ParseCodeBlock(text)),
                   ParseBraces(text)),
         ParseDirect(text))

\* extractJSON: the whole trimmed text, then the group of the code block,
\* then the text from the first { to the last }; null when none parses.
ExtractJSON(text) ==
    Call(LAMBDA direct :
         IF direct # SyntaxError THEN direct
         ELSE Call(LAMBDA block :
                   IF block # SyntaxError THEN block
                   ELSE Call(LAMBDA braces : OrElse(braces, JsonNull),
                             ParseBraces(text)),
                   ParseCodeBlock(text)),
         ParseDirect(text))

\* parsed && 'question' in parsed: false for null, the membership for an
\* object; on a number the operator `in` throws a TypeError.
QuestionIn(parsed) ==
    CASE parsed.kind = "null" -> "no"
      [] parsed.kind = "object" -> IF parsed.question THEN "yes" ELSE "no"
      [] OTHER -> "TypeError"

\* Texts an agent may answer with: a question in a tagged code block after a
\* word of prose, a bare number.
FencedQuestion == <<"x", "fence", "json", "{", "q", "}", "fence">>
BareNumber == <<"7">>

AssistantTexts == {FencedQuestion, BareNumber}

\* getMessagesFromOpenClaw on a resolved chat.history: the assistant messages
\* that have a text block, in transcript order.
AssistantMessages(history) ==
    SelectSeq(history, LAMBDA m : m.role = "assistant" /\ Present(m.content))

\* A faulty variant of LastAssistant: find without the reverse.
FirstAssistant(list) ==
    list[CHOOSE i \in 1..Len(list) :
            /\ list[i].role = "assistant"
            /\ \A j \in 1..(i - 1) : list[j].role # "assistant"]

\* [...list].reverse().find(m => m.role === 'assistant'): the last one.
\* Defined on a list that has one.
LastAssistant(list) ==
    list[CHOOSE i \in 1..Len(list) :
            /\ list[i].role = "assistant"
            /\ \A j \in (i + 1)..Len(list) : list[j].role # "assistant"]

HasAssistant(list) == \E i \in 1..Len(list) : list[i].role = "assistant"

\* A faulty variant of PlanStart: without the already-started check.
PlanStartAgain(id) ==
    LET rid == nreq + 1 IN
    /\ nreq < limit
    /\ nreq' = rid
    /\ UNCHANGED <<store, env, connected, transcript>>
    /\ IF id \notin Tasks
       THEN /\ Respond(rid, "plan", id, 404, [error |-> "Task not found"])
            /\ UNCHANGED <<gwCalls, inflight>>
       ELSE /\ gwCalls' = Append(gwCalls,
                   IF ~connected THEN GwCall("connect", <<>>, <<>>)
                   ELSE GwCall("chat.send", PlanningSessionKey(id),
                               PlanningPrompt(id)))
            /\ inflight' = inflight \cup
                   {Proc(rid, "plan", IF ~connected THEN "connect" ELSE "send",
                         id, [messages |-> <<>>, i |-> 0])}
            /\ UNCHANGED resp

\* POST: from the arrival of the request to its first await or early return.
PlanStart(id) ==
    LET rid == nreq + 1 IN
    /\ nreq < limit
    /\ nreq' = rid
    /\ UNCHANGED <<store, env, connected, transcript>>
    /\ IF id \notin Tasks
       THEN /\ Respond(rid, "plan", id, 404, [error |-> "Task not found"])
            /\ UNCHANGED <<gwCalls, inflight>>
       ELSE IF Present(tasks[id].planning_session_key)
       THEN /\ Respond(rid, "plan", id, 400,
                       [error |-> "Planning already started",
                        sessionKey |-> tasks[id].planning_session_key])
            /\ UNCHANGED <<gwCalls, inflight>>
       ELSE /\ gwCalls' = Append(gwCalls,
                   IF ~connected THEN GwCall("connect", <<>>, <<>>)
                   ELSE GwCall("chat.send", PlanningSessionKey(id),
                               PlanningPrompt(id)))
            /\ inflight' = inflight \cup
                   {Proc(rid, "plan", IF ~connected THEN "connect" ELSE "send",
                         id, [messages |-> <<>>, i |-> 0])}
            /\ UNCHANGED resp

\* client.connect() settles: a rejection is thrown to the outer catch (500),
\* else chat.send is issued.
PlanConnected(p, outcome) ==
    /\ p \in inflight /\ p.kind = "plan" /\ p.pc = "connect"
    /\ UNCHANGED <<store, env, transcript, nreq>>
    /\ IF outcome = "fail"
       THEN /\ Respond(p.id, "plan", p.target, 500,
                       [error |-> "Failed to start planning"])
            /\ inflight' = inflight \ {p}
            /\ UNCHANGED <<connected, gwCalls>>
       ELSE /\ connected' = TRUE
            /\ gwCalls' = Append(gwCalls,
                   GwCall("chat.send", PlanningSessionKey(p.target),
                          PlanningPrompt(p.target)))
            /\ inflight' = (inflight \ {p}) \cup {[p EXCEPT !.pc = "send"]}
            /\ UNCHANGED resp

\* UPDATE tasks SET planning_session_key = ?, planning_messages = ?,
\*   status = 'planning' WHERE id = ?
PlanPersist(taskId, messages) ==
    [tasks EXCEPT ![taskId].planning_session_key = PlanningSessionKey(taskId),
                  ![taskId].planning_messages = messages,
                  ![taskId].status = "planning"]

\* A faulty variant of PlanSent: the session key and the prompt are persisted
\* before the outcome of chat.send is looked at.
PlanSentEager(p, outcome) ==
    LET messages == <<Message("user", PlanningPrompt(p.target))>> IN
    /\ p \in inflight /\ p.kind = "plan" /\ p.pc = "send"
    /\ UNCHANGED <<agents, sessions, events, activities, deliverables,
                   env, connected, gwCalls, nreq>>
    /\ tasks' = PlanPersist(p.target, messages)
    /\ IF outcome = "fail"
       THEN /\ Respond(p.id, "plan", p.target, 500,
                       [error |-> "Failed to start planning"])
            /\ inflight' = inflight \ {p}
            /\ UNCHANGED transcript
       ELSE /\ transcript' = [transcript EXCEPT ![p.target] =
                                 Append(@, Message("user", PlanningPrompt(p.target)))]
            /\ inflight' = (inflight \ {p}) \cup
                   {[p EXCEPT !.pc = "poll", !.locals.messages = messages]}
            /\ UNCHANGED resp

\* chat.send settles: a rejection is thrown (500); else the session key and
\* the prompt are persisted and the poll loop is entered.  A delivered prompt
\* is part of the gateway's transcript of the session.
PlanSent(p, outcome) ==
    /\ p \in inflight /\ p.kind = "plan" /\ p.pc = "send"
    /\ UNCHANGED <<agents, sessions, events, activities, deliverables,
                   env, connected, gwCalls, nreq>>
    /\ IF outcome = "fail"
       THEN /\ Respond(p.id, "plan", p.target, 500,
                       [error |-> "Failed to start planning"])
            /\ inflight' = inflight \ {p}
            /\ UNCHANGED <<tasks, transcript>>
       ELSE LET messages == <<Message("user", PlanningPrompt(p.target))>> IN
            /\ tasks' = PlanPersist(p.target, messages)
            /\ transcript' = [transcript EXCEPT ![p.target] =
                                 Append(@, Message("user", PlanningPrompt(p.target)))]
            /\ inflight' = (inflight \ {p}) \cup
                   {[p EXCEPT !.pc = "poll", !.locals.messages = messages]}
            /\ UNCHANGED resp

\* The response of POST once an assistant message was found: the parsed
\* question, or the raw response; a TypeError thrown by `in` is caught by
\* the outer catch (500).
PlanRespond(p, messages, response) ==
    \E parsed \in {ExtractJSON(response)} :
    IF QuestionIn(parsed) = "TypeError"
    THEN Respond(p.id, "plan", p.target, 500,
                 [error |-> "Failed to start planning"])
    ELSE Respond(p.id, "plan", p.target, 200,
                 [success |-> TRUE, messages |-> messages,
                  response |-> response,
                  currentQuestion |-> IF QuestionIn(parsed) = "yes"
                                      THEN parsed ELSE JsonNull,
                  rawResponse |-> IF QuestionIn(parsed) = "yes"
                                  THEN <<>> ELSE response,
                  polls |-> p.locals.i + 1])

\* A faulty variant of PlanPoll: the last empty iteration is answered as a
\* failure.
PlanPollFailing(p, outcome) ==
    /\ p \in inflight /\ p.kind = "plan" /\ p.pc = "poll"
    /\ p.locals.i < MaxPollAttempts
    /\ UNCHANGED <<agents, sessions, events, activities, deliverables,
                   env, connected, gwCalls, transcript, nreq>>
    /\ \E found \in {IF outcome = "ok"
                      THEN AssistantMessages(transcript[p.target]) ELSE <<>>} :
       IF Len(found) > 0 /\ HasAssistant(found)
       THEN \E response \in {LastAssistant(found).content} :
            LET messages == Append(p.locals.messages,
                                   Message("assistant", response))
            IN  /\ tasks' = [tasks EXCEPT ![p.target].planning_messages = messages]
                /\ inflight' = inflight \ {p}
                /\ PlanRespond(p, messages, response)
       ELSE IF p.locals.i + 1 < MaxPollAttempts
       THEN /\ inflight' = (inflight \ {p}) \cup
                   {[p EXCEPT !.locals.i = p.locals.i + 1]}
            /\ UNCHANGED <<tasks, resp>>
       ELSE /\ inflight' = inflight \ {p}
            /\ UNCHANGED tasks
            /\ Respond(p.id, "plan", p.target, 500,
                       [error |-> "Failed to start planning"])

\* One iteration of the poll loop: the sleep, then getMessagesFromOpenClaw
\* (which answers [] when the gateway call rejects; the client is connected
\* since the prompt was sent).  On an assistant
\* message the loop is left, the log is written back and 200 returned; on
\* the last empty iteration 200 is returned with the still-waiting note.
PlanPoll(p, outcome) ==
    /\ p \in inflight /\ p.kind = "plan" /\ p.pc = "poll"
    /\ p.locals.i < MaxPollAttempts
    /\ UNCHANGED <<agents, sessions, events, activities, deliverables,
                   env, connected, gwCalls, transcript, nreq>>
    /\ \E found \in {IF outcome = "ok"
                      THEN AssistantMessages(transcript[p.target]) ELSE <<>>} :
       IF Len(found) > 0 /\ HasAssistant(found)
       THEN \E response \in {LastAssistant(found).content} :
            LET messages == Append(p.locals.messages,
                                   Message("assistant", response))
            IN  /\ tasks' = [tasks EXCEPT ![p.target].planning_messages = messages]
                /\ inflight' = inflight \ {p}
                /\ PlanRespond(p, messages, response)
       ELSE IF p.locals.i + 1 < MaxPollAttempts
       THEN /\ inflight' = (inflight \ {p}) \cup
                   {[p EXCEPT !.locals.i = p.locals.i + 1]}
            /\ UNCHANGED <<tasks, resp>>
       ELSE /\ inflight' = inflight \ {p}
            /\ UNCHANGED tasks
            /\ Respond(p.id, "plan", p.target, 200,
                       [success |-> TRUE, messages |-> p.locals.messages,
                        note |-> "Planning started, waiting for response",
                        polls |-> p.locals.i + 1])

\* The response of GET: currentQuestion is the parsed last assistant message
\* of the log when it has the key question, else null; a TypeError thrown by
\* `in` is caught by the outer catch (500).
GetPlanRespond(id, taskId, messages, sessionKey) ==
    \E parsed \in {IF HasAssistant(messages)
                    THEN ExtractJSON(LastAssistant(messages).content)
                    ELSE JsonNull} :
        IF QuestionIn(parsed) = "TypeError"
        THEN Respond(id, "getplan", taskId, 500,
                     [error |-> "Failed to get planning state"])
        ELSE Respond(id, "getplan", taskId, 200,
                     [messages |-> messages,
                      sessionKey |-> sessionKey,
                      currentQuestion |-> IF QuestionIn(parsed) = "yes"
                                          THEN parsed ELSE JsonNull,
                      isStarted |-> Len(messages) > 0])

\* GET: from the arrival of the request to the await on the gateway, or to
\* the response when no fetch is needed.
GetPlanStart(id) ==
    LET rid == nreq + 1 IN
    /\ nreq < limit
    /\ nreq' = rid
    /\ UNCHANGED <<store, env, connected, transcript>>
    /\ IF id \notin Tasks
       THEN /\ Respond(rid, "getplan", id, 404, [error |-> "Task not found"])
            /\ UNCHANGED <<gwCalls, inflight>>
       ELSE LET messages == tasks[id].planning_messages IN
            IF /\ ~HasAssistant(messages)
               /\ Present(tasks[id].planning_session_key)
               /\ Len(messages) > 0
            THEN /\ gwCalls' = IF ~connected
                                THEN Append(gwCalls, GwCall("connect", <<>>, <<>>))
                                ELSE gwCalls
                 /\ inflight' = inflight \cup
                        {Proc(rid, "getplan",
                              IF ~connected THEN "connect" ELSE "history", id,
                              [messages |-> messages,
                               sessionKey |-> tasks[id].planning_session_key])}
                 /\ UNCHANGED resp
            ELSE /\ GetPlanRespond(rid, id, messages,
                                   tasks[id].planning_session_key)
                 /\ UNCHANGED <<gwCalls, inflight>>

\* A faulty variant of GetPlanReconcile: the message found is returned but
\* not written to the task.
GetPlanReconcileUnsaved(p, found) ==
    /\ inflight' = inflight \ {p}
    /\ UNCHANGED tasks
    /\ IF Len(found) > 0 /\ HasAssistant(found)
       THEN GetPlanRespond(p.id, p.target,
                           Append(p.locals.messages,
                                  Message("assistant",
                                          LastAssistant(found).content)),
                           p.locals.sessionKey)
       ELSE GetPlanRespond(p.id, p.target, p.locals.messages,
                           p.locals.sessionKey)

\* A faulty variant of GetPlanReconcile: the message found is appended to
\* the log as it is in the table now, not to the log the handler read.
GetPlanReconcileAppending(p, found) ==
    /\ inflight' = inflight \ {p}
    /\ IF Len(found) > 0 /\ HasAssistant(found)
       THEN LET messages == Append(tasks[p.target].planning_messages,
                                   Message("assistant", LastAssistant(found).content))
            IN  /\ tasks' = [tasks EXCEPT ![p.target].planning_messages = messages]
                /\ GetPlanRespond(p.id, p.target, messages, p.locals.sessionKey)
       ELSE /\ UNCHANGED tasks
            /\ GetPlanRespond(p.id, p.target, p.locals.messages,
                              p.locals.sessionKey)

\* The response of GET after getMessagesFromOpenClaw answered `found`.
GetPlanReconcile(p, found) ==
    /\ inflight' = inflight \ {p}
    /\ IF Len(found) > 0 /\ HasAssistant(found)
       THEN LET messages == Append(p.locals.messages,
                                   Message("assistant", LastAssistant(found).content))
            IN  /\ tasks' = [tasks EXCEPT ![p.target].planning_messages = messages]
                /\ GetPlanRespond(p.id, p.target, messages, p.locals.sessionKey)
       ELSE /\ UNCHANGED tasks
            /\ GetPlanRespond(p.id, p.target, p.locals.messages,
                              p.locals.sessionKey)

\* GET: client.connect() inside getMessagesFromOpenClaw settles; a rejection
\* is caught there and answers [].
GetPlanConnected(p, outcome) ==
    /\ p \in inflight /\ p.kind = "getplan" /\ p.pc = "connect"
    /\ UNCHANGED <<agents, sessions, events, activities, deliverables,
                   env, transcript, nreq>>
    /\ IF outcome = "fail"
       THEN /\ GetPlanReconcile(p, <<>>)
            /\ UNCHANGED <<connected, gwCalls>>
       ELSE /\ connected' = TRUE
            /\ inflight' = (inflight \ {p}) \cup {[p EXCEPT !.pc = "history"]}
            /\ UNCHANGED <<tasks, gwCalls, resp>>

\* GET: chat.history settles.
GetPlanFetched(p, outcome) ==
    /\ p \in inflight /\ p.kind = "getplan" /\ p.pc = "history"
    /\ UNCHANGED <<agents, sessions, events, activities, deliverables,
                   env, connected, gwCalls, transcript, nreq>>
    /\ GetPlanReconcile(p, IF outcome = "ok"
                           THEN AssistantMessages(transcript[p.target]) ELSE <<>>)

\* The gateway side: the agent of a planning session that has been sent its
\* prompt adds a message to the session's transcript.
AgentReplies(taskId, text) ==
    /\ \E i \in 1..Len(transcript[taskId]) : transcript[taskId][i].role = "user"
    /\ Len(AssistantMessages(transcript[taskId])) < MaxTranscript
    /\ transcript' = [transcript EXCEPT ![taskId] =
                         Append(@, Message("assistant", text))]
    /\ UNCHANGED <<store, env, connected, gwCalls, inflight, nreq, resp>>

\* The gateway side: the connection is lost and client.isConnected() turns
\* false.  Taken between handlers and while a request can still arrive: to a
\* suspended handler a lost connection is the rejection of the call it awaits.
Disconnect ==
    /\ connected /\ inflight = {} /\ nreq < limit
    /\ connected' = FALSE
    /\ UNCHANGED <<store, env, gwCalls, transcript, inflight, nreq, resp>>

\* ------------------------------------------------------------------------
\* Requests and initial states
\* ------------------------------------------------------------------------

NoMessage == [marker |-> "", rest |-> <<>>]
NoDeliverables == [present |-> FALSE, list |-> <<>>]

\* {task_id, status?, summary?, deliverables?}
DirectBody(taskId, status, summary, ds) ==
    [parses |-> TRUE, task_id |-> taskId, status |-> status, summary |-> summary,
     deliverables |-> ds, session_id |-> None, message |-> NoMessage]

\* {session_id?, message?}
LegacyBody(sessionId, message) ==
    [parses |-> TRUE, task_id |-> NULL, status |-> NULL, summary |-> NULL,
     deliverables |-> NoDeliverables, session_id |-> sessionId,
     message |-> message]

\* A body JSON.parse rejects.
MalformedBody ==
    [parses |-> FALSE, task_id |-> NULL, status |-> NULL, summary |-> NULL,
     deliverables |-> NoDeliverables, session_id |-> None, message |-> NoMessage]

FileDeliverable == [type |-> "file", title |-> "x.txt", path |-> "/out/x.txt"]
BareDeliverable == [type |-> NULL, title |-> "demo", path |-> NULL]

\* payload status: absent, the three allowed ones, one that is not allowed
PayloadStatuses == {NULL, "testing", "review", "done", "in_progress"}

\* (summary, deliverables) of the direct payloads
PayloadContents ==
    {<<NULL, NoDeliverables>>,
     <<"Built it", [present |-> TRUE, list |-> <<FileDeliverable>>]>>,
     <<"", [present |-> TRUE, list |-> <<FileDeliverable, BareDeliverable>>]>>}

ExplicitSessionId == <<"ext-1">>

CompleteMessage == [marker |-> "TASK_COMPLETE:", rest |-> <<" ", "ok", " ">>]
LowerCaseMessage == [marker |-> "task_complete:", rest |-> <<"ok">>]
ChatMessage == [marker |-> "", rest |-> <<"I", " ", "finished">>]
BareMarkerMessage == [marker |-> "TASK_COMPLETE:", rest |-> <<>>]

Bodies ==
    {DirectBody("t1", st, NULL, NoDeliverables) : st \in PayloadStatuses}
    \cup {DirectBody("t1", "review", c[1], c[2]) : c \in PayloadContents}
    \cup {DirectBody("t2", NULL, c[1], c[2]) : c \in PayloadContents}
    \cup {DirectBody("t2", "review", "Built it", NoDeliverables),
          DirectBody("tX", "done", NULL, NoDeliverables)}
    \cup {LegacyBody(sid, m) :
            sid \in {DerivedSessionId(AgentName("a3")), ExplicitSessionId},
            m \in {CompleteMessage, ChatMessage}}
    \cup {LegacyBody(DerivedSessionId(AgentName("a3")), LowerCaseMessage),
          LegacyBody(DerivedSessionId(AgentName("a3")), BareMarkerMessage),
          LegacyBody(None, CompleteMessage),
          LegacyBody(None, NoMessage),
          MalformedBody}

\* x-webhook-signature: absent, the digest under the configured secret, the
\* digest under another secret, the right digest of another body.
Signatures(body) ==
    {None, Hmac("s1", body), Hmac("s2", body), Hmac("s1", MalformedBody)}

Secrets == {NULL, "", "s1"}

\* Tasks the planning requests of the model are about.
PlanTargets == {"t1", "tX"}

TaskRow(status, agentId, workspaceId) ==
    [status |-> status, assigned_agent_id |-> agentId, workspace_id |-> workspaceId,
     planning_session_key |-> None, planning_messages |-> <<>>, updated_at |-> 0]

AgentRow(a, isMaster, workspaceId, status) ==
    [name |-> AgentName(a), is_master |-> isMaster, workspace_id |-> workspaceId,
     status |-> status]

\* The rows every initial state has: both tasks in workspace w1, t1 in
\* the inbox and t2 assigned; a1 and a2 master agents, a3 not.
InitTasks(g1, g2) ==
    [t \in Tasks |-> IF t = "t1" THEN TaskRow("inbox", g1, "w1")
                     ELSE TaskRow("assigned", g2, "w1")]

InitAgents ==
    [a \in Agents |-> AgentRow(a, a # "a3", "w1", "standby")]

InitIdle ==
    /\ activities = <<>>
    /\ deliverables = <<>>
    /\ connected = FALSE
    /\ gwCalls = <<>>
    /\ transcript = [t \in Tasks |-> <<>>]
    /\ inflight = {}
    /\ nreq = 0
    /\ resp = NoResp

\* The process after start-up: nothing linked, nothing logged.
Init ==
    /\ tasks = InitTasks("a3", "a1")
    /\ agents = InitAgents
    /\ sessions = <<>> /\ events = <<>>
    /\ webhookSecret \in {NULL, "s1"}
    /\ InitIdle
    /\ limit = MaxOps

DispatchNext ==
    \/ \E id \in TaskIds : DispatchStart(id)
    \/ \E p \in inflight, o \in Outcomes : DispatchConnected(p, o)
    \/ \E p \in inflight, o \in Outcomes : DispatchSent(p, o)

WebhookNext ==
    \E b \in Bodies : \E sig \in Signatures(b) : Webhook(b, sig)

SessionNext ==
    \/ \E id \in AgentIds, x \in {None, ExplicitSessionId} : LinkStart(id, x)
    \/ \E p \in inflight, o \in Outcomes : LinkConnected(p, o)
    \/ \E p \in inflight, o \in Outcomes : LinkListed(p, o)
    \/ \E p \in inflight : LinkStore(p)
    \/ \E id \in AgentIds : Unlink(id)

PlanningNext ==
    \/ \E id \in PlanTargets : PlanStart(id)
    \/ \E p \in inflight, o \in Outcomes : PlanConnected(p, o)
    \/ \E p \in inflight, o \in Outcomes : PlanSent(p, o)
    \/ \E p \in inflight, o \in Outcomes : PlanPoll(p, o)
    \/ \E id \in PlanTargets : GetPlanStart(id)
    \/ \E p \in inflight, o \in Outcomes : GetPlanConnected(p, o)
    \/ \E p \in inflight, o \in Outcomes : GetPlanFetched(p, o)
    \/ \E t \in Tasks, text \in AssistantTexts : AgentReplies(t, text)
    \/ Disconnect

Next ==
    \/ DispatchNext
    \/ WebhookNext
    \/ SessionNext
    \/ PlanningNext

\* All handlers, interleaved at their awaits.
Spec == Init /\ [][Next]_vars

\* The completion webhook alone, on stores in which t1 has any status and
\* any kind of assignee, a3 works on t2 and is linked.
InitWebhook ==
    /\ \E st \in Statuses, g1 \in {"a3", NULL, "aX"} :
          tasks = [t \in Tasks |-> IF t = "t1" THEN TaskRow(st, g1, "w1")
                                   ELSE TaskRow("in_progress", "a3", "w1")]
    /\ agents = [InitAgents EXCEPT !["a3"].status = "working"]
    /\ sessions = <<SessionRow("a3", DerivedSessionId(AgentName("a3")))>>
    /\ events = <<LinkEvent("a3")>>
    /\ webhookSecret \in Secrets
    /\ InitIdle
    /\ limit = MaxWebhooks

SpecWebhook == InitWebhook /\ [][WebhookNext]_vars

\* The completion webhook alone, on stores made for the session-based path:
\* a3 was linked to an explicit session, unlinked and linked again, and is
\* assigned t2 (in progress) and t1, which has any status and was updated
\* before or after t2.
InitLegacy ==
    /\ \E st \in Statuses, u1 \in {-2, 0} :
          tasks = [t \in Tasks |->
                      IF t = "t1"
                      THEN [TaskRow(st, "a3", "w1") EXCEPT !.updated_at = u1]
                      ELSE [TaskRow("in_progress", "a3", "w1")
                               EXCEPT !.updated_at = -1]]
    /\ agents = [InitAgents EXCEPT !["a3"].status = "working"]
    /\ sessions = <<[SessionRow("a3", ExplicitSessionId)
                        EXCEPT !.status = "inactive"],
                    SessionRow("a3", DerivedSessionId(AgentName("a3")))>>
    /\ events = <<LinkEvent("a3"), UnlinkEvent("a3"), LinkEvent("a3")>>
    /\ webhookSecret = NULL
    /\ InitIdle
    /\ limit = MaxWebhooks

SpecLegacy == InitLegacy /\ [][WebhookNext]_vars

\* The sessions of a3 in an initial state, with the events that record them:
\* never linked; linked; linked to an explicit session and unlinked; linked
\* by two link requests that both found it unlinked.
InitLinks ==
    LET linked == SessionRow("a3", DerivedSessionId(AgentName("a3")))
        unlinked == [SessionRow("a3", ExplicitSessionId) EXCEPT !.status = "inactive"]
    IN  {[sessions |-> <<>>, events |-> <<>>],
         [sessions |-> <<linked>>, events |-> <<LinkEvent("a3")>>],
         [sessions |-> <<unlinked>>,
          events |-> <<LinkEvent("a3"), UnlinkEvent("a3")>>],
         [sessions |-> <<linked, linked>>,
          events |-> <<LinkEvent("a3"), LinkEvent("a3")>>]}

\* Dispatch alone, on stores that vary the task, its assignee and the agents
\* around the assignee.
InitDispatch ==
    /\ \E st \in {"inbox", "assigned", "review"}, g1 \in {"a1", "a3", NULL, "aX"} :
          tasks = [t \in Tasks |-> IF t = "t1" THEN TaskRow(st, g1, "w1")
                                   ELSE TaskRow("assigned", "a3", "w1")]
    /\ \E w2 \in Workspaces, s2 \in {"standby", "working", "offline"},
          m3 \in BOOLEAN, s3 \in {"standby", "offline"} :
          agents = [a \in Agents |->
                       CASE a = "a1" -> AgentRow(a, TRUE, "w1", "standby")
                         [] a = "a2" -> AgentRow(a, TRUE, w2, s2)
                         [] OTHER -> AgentRow(a, m3, "w1", s3)]
    /\ \E l \in InitLinks : sessions = l.sessions /\ events = l.events
    /\ webhookSecret = NULL
    /\ InitIdle
    /\ limit = MaxDispatches

SpecDispatch == InitDispatch /\ [][DispatchNext]_vars

\* Link and unlink alone.
InitSessions ==
    /\ tasks = InitTasks("a3", "a1")
    /\ agents = InitAgents
    /\ \E l \in InitLinks : sessions = l.sessions /\ events = l.events
    /\ webhookSecret = NULL
    /\ InitIdle
    /\ limit = MaxSessionOps

SpecSessions == InitSessions /\ [][SessionNext]_vars

\* Planning alone (POST, GET, the agent's replies, the loss of the
\* connection), on the store of Init.
InitPlanning ==
    /\ tasks = InitTasks("a3", "a1")
    /\ agents = InitAgents
    /\ sessions = <<>> /\ events = <<>>
    /\ webhookSecret = NULL
    /\ InitIdle
    /\ limit = MaxPlanOps

SpecPlanning == InitPlanning /\ [][PlanningNext]_vars

\* Every iteration of a poll loop is taken in the end: its timer fires and
\* its gateway call settles.
PollFairness ==
    \A id \in 1..MaxPlanOps :
       WF_vars(\E p \in inflight, o \in Outcomes : p.id = id /\ PlanPoll(p, o))

FairSpecPlanning == SpecPlanning /\ PollFairness

\* Dispatch and the completion webhook executed one after the other: a
\* request arrives only when no handler is suspended.  Both tasks are
\* assigned to a3.
MaxSequentialOps == 3

InitSequential ==
    /\ tasks = InitTasks("a3", "a3")
    /\ agents = InitAgents
    /\ sessions = <<>> /\ events = <<>>
    /\ webhookSecret = NULL
    /\ InitIdle
    /\ limit = MaxSequentialOps

SequentialNext ==
    \/ inflight = {} /\ \E id \in TaskIds : DispatchStart(id)
    \/ \E p \in inflight, o \in Outcomes : DispatchConnected(p, o)
    \/ \E p \in inflight, o \in Outcomes : DispatchSent(p, o)
    \/ inflight = {} /\ WebhookNext

SpecSequential == InitSequential /\ [][SequentialNext]_vars

\* One planning POST for t1, which is the first request, and planning GETs
\* for t1 at any moment after it has arrived.
MaxLogOps == 3

InitOneStart ==
    /\ tasks = InitTasks("a3", "a1")
    /\ agents = InitAgents
    /\ sessions = <<>> /\ events = <<>>
    /\ webhookSecret = NULL
    /\ InitIdle
    /\ limit = MaxLogOps

OneStartNext ==
    \/ nreq = 0 /\ PlanStart("t1")
    \/ \E p \in inflight, o \in Outcomes : PlanConnected(p, o)
    \/ \E p \in inflight, o \in Outcomes : PlanSent(p, o)
    \/ \E p \in inflight, o \in Outcomes : PlanPoll(p, o)
    \/ nreq > 0 /\ GetPlanStart("t1")
    \/ \E p \in inflight, o \in Outcomes : GetPlanFetched(p, o)
    \/ \E text \in AssistantTexts : AgentReplies("t1", text)

SpecOneStart == InitOneStart /\ [][OneStartNext]_vars

\* Link, unlink and dispatch executed one at a time: a request arrives only
\* when no handler is suspended.  Nothing is linked at the start.
MaxSerialOps == 3

InitSerial ==
    /\ tasks = InitTasks("a3", "a1")
    /\ agents = InitAgents
    /\ sessions = <<>> /\ events = <<>>
    /\ webhookSecret = NULL
    /\ InitIdle
    /\ limit = MaxSerialOps

SerialNext ==
    \/ inflight = {} /\ \E id \in AgentIds, x \in {None, ExplicitSessionId} :
                            LinkStart(id, x)
    \/ \E p \in inflight, o \in Outcomes : LinkConnected(p, o)
    \/ \E p \in inflight, o \in Outcomes : LinkListed(p, o)
    \/ \E p \in inflight : LinkStore(p)
    \/ inflight = {} /\ \E id \in AgentIds : Unlink(id)
    \/ inflight = {} /\ \E id \in TaskIds : DispatchStart(id)
    \/ \E p \in inflight, o \in Outcomes : DispatchConnected(p, o)
    \/ \E p \in inflight, o \in Outcomes : DispatchSent(p, o)

SpecSerial == InitSerial /\ [][SerialNext]_vars

\* The texts extractJSON is applied to: every text of at most MaxTextLen
\* tokens.
MaxTextLen == 5

Texts == UNION {[1..n -> Tokens] : n \in 0..MaxTextLen}

\* extractJSON alone, applied by the two planning handlers to any text: the
\* prompt of t1 has been sent and stored, the agent has replied with the
\* text, the POST handler is about to make its last query, and one GET may
\* arrive before or after it.
InitExtract ==
    /\ \E text \in Texts :
          transcript = [t \in Tasks |->
                           IF t = "t1"
                           THEN <<Message("user", PlanningPrompt(t)),
                                  Message("assistant", text)>>
                           ELSE <<>>]
    /\ tasks = [InitTasks("a3", "a1") EXCEPT
                   !["t1"].status = "planning",
                   !["t1"].planning_session_key = PlanningSessionKey("t1"),
                   !["t1"].planning_messages =
                       <<Message("user", PlanningPrompt("t1"))>>]
    /\ agents = InitAgents
    /\ sessions = <<>> /\ events = <<>>
    /\ activities = <<>> /\ deliverables = <<>>
    /\ webhookSecret = NULL
    /\ connected = TRUE
    /\ gwCalls = <<GwCall("connect", <<>>, <<>>),
                   GwCall("chat.send", PlanningSessionKey("t1"),
                          PlanningPrompt("t1"))>>
    /\ inflight = {Proc(1, "plan", "poll", "t1",
                        [i |-> MaxPollAttempts - 1,
                         messages |-> <<Message("user", PlanningPrompt("t1"))>>])}
    /\ nreq = 1
    /\ resp = NoResp
    /\ limit = 2

ExtractNext ==
    \/ \E p \in inflight, o \in Outcomes : PlanPoll(p, o)
    \/ GetPlanStart("t1")
    \/ \E p \in inflight, o \in Outcomes : GetPlanFetched(p, o)

SpecExtract == InitExtract /\ [][ExtractNext]_vars

\* ------------------------------------------------------------------------
\* Properties
\* ------------------------------------------------------------------------

\* Position of a status in planning < inbox < assigned < in_progress <
\* testing < review < done.
Rank(status) ==
    CASE status = "planning" -> 0
      [] status = "inbox" -> 1
      [] status = "assigned" -> 2
      [] status = "in_progress" -> 3
      [] status = "testing" -> 4
      [] status = "review" -> 5
      [] status = "done" -> 6

\* Number of rows of a session table that are active sessions of an agent.
ActiveCount(agentId, table) ==
    Cardinality({i \in 1..Len(table) :
                    table[i].agent_id = agentId /\ table[i].status = "active"})

\* new is old with exactly one row appended.
AppendsOne(old, new) ==
    Len(new) = Len(old) + 1 /\ SubSeq(new, 1, Len(old)) = old

Last(seq) == seq[Len(seq)]

\* The step returns the response of a request to `op`.
Answers(op) == resp'.id # resp.id /\ resp'.op = op

\* The step is the arrival of a request of `kind` about `target`: it answers
\* it at once or suspends its handler.
Arrives(kind, target) ==
    /\ nreq' = nreq + 1
    /\ \/ resp'.id = nreq' /\ resp'.op = kind /\ resp'.req = target
       \/ \E p \in inflight' :
             p.id = nreq' /\ p.kind = kind /\ p.target = target

\* A webhook request that the signature rule lets through: no secret is
\* configured, or the header is the digest of the body under the secret.
Authentic(req) ==
    \/ webhookSecret \in {NULL, ""}
    \/ req.signature # <<>> /\ req.signature = Hmac(webhookSecret, req.body)

\* The step answers an authentic direct webhook about an existing task.
DirectHit ==
    /\ Answers("webhook")
    /\ Authentic(resp'.req)
    /\ resp'.req.body.parses
    /\ resp'.req.body.task_id \in Tasks

\* C1: from one state to the next the rank of every task's status in the
\* ordering never decreases, whatever handler takes the step (dispatch,
\* planning POST and GET, completion webhook).
C1_StatusNeverRegresses ==
    [][\A t \in Tasks : Rank(tasks'[t].status) >= Rank(tasks[t].status)]_vars

\* C2: in every reachable state every agent has at most one session row
\* with status active.
C2_AtMostOneActiveSession ==
    \A a \in Agents : ActiveCount(a, sessions) <= 1

\* C3: an authentic direct webhook about an existing task is answered 200;
\* with `requested` the payload status when it is testing, review or done and
\* testing otherwise, the stored status becomes `requested` when `requested`
\* is strictly later than the current status and stays the current status
\* otherwise; new_status of the response is the stored status; and when the
\* request before it was the same request, answered 200, the status does not
\* change.
C3_ForwardOnlyAdvance ==
    [][DirectHit =>
          LET b == resp'.req.body
              t == b.task_id
              current == tasks[t].status
              requested == IF b.status \in {"testing", "review", "done"}
                           THEN b.status ELSE "testing"
          IN  /\ resp'.code = 200
              /\ tasks'[t].status = IF Rank(requested) > Rank(current)
                                    THEN requested ELSE current
              /\ resp'.data.new_status = tasks'[t].status
              /\ \A u \in Tasks \ {t} : tasks'[u].status = tasks[u].status
              /\ (resp.op = "webhook" /\ resp.code = 200 /\ resp.req.body = b)
                    => tasks'[t].status = current]_vars

\* A second webhook has just moved t1 forward to testing on a payload status
\* that is not one of the allowed three.
C3_Witness ==
    /\ nreq = 2
    /\ resp.op = "webhook" /\ resp.code = 200
    /\ resp.req.body.task_id = "t1" /\ resp.req.body.status = "in_progress"
    /\ tasks["t1"].status = "testing" /\ tasks["t1"].updated_at = 2

\* C4: a task whose status is done is still done after any webhook step
\* (direct with any payload status, or legacy).
C4_DoneIsAbsorbing ==
    [][\A t \in Tasks : tasks[t].status = "done" => tasks'[t].status = "done"]_vars

\* t1 is done and the second webhook, a direct one asking for review, has
\* been answered 200 with new_status done.
C4_Witness ==
    /\ nreq = 2
    /\ resp.op = "webhook" /\ resp.code = 200
    /\ resp.req.body.task_id = "t1" /\ resp.req.body.status = "review"
    /\ resp.data.new_status = "done"
    /\ tasks["t1"].status = "done"

\* The other master agents of a workspace that are not offline.
Alternatives(agentId, workspaceId) ==
    {a \in Agents \ {agentId} :
        /\ agents[a].is_master
        /\ agents[a].workspace_id = workspaceId
        /\ agents[a].status \in {"standby", "working"}}

\* C5: when a dispatch request arrives for a task whose assigned agent is a
\* master agent and another master agent of the workspace is not offline,
\* the step answers 409 with exactly those other agents, issues no gateway
\* call, suspends no handler and leaves the whole store unchanged.
C5_OrchestratorConflict ==
    [][\A t \in Tasks :
          LET a == tasks[t].assigned_agent_id IN
          (/\ Arrives("dispatch", t)
           /\ a \in Agents
           /\ agents[a].is_master
           /\ Alternatives(a, agents[a].workspace_id) # {})
          => /\ resp'.id = nreq' /\ resp'.code = 409
             /\ resp'.data.otherOrchestrators
                   = Alternatives(a, agents[a].workspace_id)
             /\ a \notin resp'.data.otherOrchestrators
             /\ store' = store
             /\ gwCalls' = gwCalls /\ connected' = connected
             /\ inflight' = inflight]_vars

\* Dispatch of t1, assigned to the master a1, was answered 409 naming a3
\* alone: a2 is a master of the workspace too, but offline.
C5_Witness ==
    /\ resp.op = "dispatch" /\ resp.code = 409 /\ resp.req = "t1"
    /\ tasks["t1"].assigned_agent_id = "a1"
    /\ agents["a2"].workspace_id = "w1" /\ agents["a2"].status = "offline"
    /\ resp.data.otherOrchestrators = {"a3"}
    /\ gwCalls = <<>> /\ sessions = <<>>

\* C6: with a non-empty secret configured, a webhook request whose signature
\* header is absent or is not the HMAC-SHA-256 digest of the raw body under
\* the secret is answered 401 and leaves the whole store unchanged, whether
\* or not the body parses.
C6_SignatureRejection ==
    [][(/\ Answers("webhook")
        /\ webhookSecret \notin {NULL, ""}
        /\ \/ resp'.req.signature = <<>>
           \/ resp'.req.signature # Hmac(webhookSecret, resp'.req.body))
       => resp'.code = 401 /\ store' = store]_vars

\* A body that does not parse, sent with a signature made for another body,
\* has been answered 401 with nothing written.
C6_Witness ==
    /\ resp.op = "webhook" /\ resp.code = 401
    /\ webhookSecret = "s1"
    /\ ~resp.req.body.parses
    /\ resp.req.signature # <<>>
    /\ Len(events) = 1 /\ activities = <<>> /\ deliverables = <<>>

\* The task_dispatched rows of an event table.
TaskDispatched(table) == SelectSeq(table, LAMBDA e : e.type = "task_dispatched")

\* C7: in every step of a dispatch handler:
\* (1) tasks, agents, activities or the task_dispatched events change only in
\*     the step in which a handler suspended on chat.send answers 200;
\* (2) a handler suspended on chat.send answers 200 or 500 when the send
\*     settles, and a step that answers anything but 200 leaves the whole
\*     store unchanged;
\* (3) a step that answers nothing changes the store at most by one active
\*     session row, added for an agent that had no active session, and one
\*     agent_status_changed event of that agent;
\* (4) a step that issues chat.send for an agent that has an active session
\*     adds no session, and the send is addressed to an active session of
\*     the agent.
C7_DispatchAllOrNothing ==
    [][/\ (\/ tasks' # tasks \/ agents' # agents \/ activities' # activities
           \/ TaskDispatched(events') # TaskDispatched(events))
          => \E p \in inflight :
                /\ p.kind = "dispatch" /\ p.pc = "send" /\ p \notin inflight'
                /\ resp'.id = p.id /\ resp'.code = 200
                /\ \E i \in 1..Len(gwCalls) :
                      /\ gwCalls[i].method = "chat.send"
                      /\ gwCalls[i].message = <<"NEW TASK ASSIGNED", p.target>>
       /\ \A p \in inflight :
             (p.kind = "dispatch" /\ p.pc = "send" /\ p \notin inflight')
             => resp'.id = p.id /\ resp'.code \in {200, 500}
       /\ (Answers("dispatch") /\ resp'.code # 200) => store' = store
       /\ (resp'.id = resp.id)
          => \/ store' = store
             \/ \E a \in Agents :
                   /\ ActiveCount(a, sessions) = 0
                   /\ AppendsOne(sessions, sessions')
                   /\ Last(sessions').agent_id = a
                   /\ Last(sessions').status = "active"
                   /\ AppendsOne(events, events')
                   /\ Last(events').type = "agent_status_changed"
                   /\ Last(events').agent_id = a
                   /\ UNCHANGED <<tasks, agents, activities, deliverables>>
       /\ \A p \in inflight' \ inflight :
             (p.kind = "dispatch" /\ p.pc = "send")
             => /\ ActiveCount(p.locals.agent, sessions) > 0
                      => sessions' = sessions
                /\ \E i \in 1..Len(sessions') :
                      /\ sessions'[i].agent_id = p.locals.agent
                      /\ sessions'[i].status = "active"
                      /\ sessions'[i].openclaw_session_id = p.locals.session
                /\ Last(gwCalls').method = "chat.send"
                /\ Last(gwCalls').sessionKey
                      = <<"agent:main:">> \o p.locals.session]_vars

\* Two dispatches have sent to a3, the first send failed and the second was
\* answered 200: the session created by the first is the only one, and the
\* dispatch writes were made once.
C7_Witness ==
    /\ resp.op = "dispatch" /\ resp.code = 200 /\ resp.id = 2
    /\ inflight = {}
    /\ Len(SelectSeq(gwCalls, LAMBDA c : c.method = "chat.send")) = 2
    /\ Len(sessions) = 1 /\ sessions[1].agent_id = "a3"
    /\ Len(events) = 2
    /\ events[1].message = <<"session created">>
    /\ events[2].type = "task_dispatched"
    /\ Len(activities) = 1

\* C8: when the send of a dispatch of a task that was inbox or assigned, to
\* an agent that was a non-master standby agent, settles with the answer 200,
\* the agent has exactly one active session, the task is in_progress, the
\* agent is working, and the step appended exactly one activity, of type
\* status_changed, and exactly one event, of type task_dispatched, both for
\* the task.
C8_SuccessfulDispatch ==
    [][\A p \in inflight :
          (/\ p.kind = "dispatch" /\ p.pc = "send" /\ p \notin inflight'
           /\ resp'.id = p.id /\ resp'.code = 200
           /\ p.locals.task.status \in {"inbox", "assigned"}
           /\ ~p.locals.agentRow.is_master
           /\ p.locals.agentRow.status = "standby")
          => /\ ActiveCount(p.locals.agent, sessions') = 1
             /\ tasks'[p.target].status = "in_progress"
             /\ agents'[p.locals.agent].status = "working"
             /\ AppendsOne(activities, activities')
             /\ Last(activities').activity_type = "status_changed"
             /\ Last(activities').task_id = p.target
             /\ AppendsOne(events, events')
             /\ Last(events').type = "task_dispatched"
             /\ Last(events').task_id = p.target]_vars

\* C9: an authentic direct webhook about an existing task is answered 200
\* and appends one deliverable row per entry of the payload's list (none
\* when there is no list), in order and for the task; exactly one activity
\* of type completed and exactly one event of type task_completed, both
\* carrying the summary ("Task finished" when it is absent or empty); it
\* sets the assigned agent, when it has a row, to standby and changes no
\* other agent; asked for review on an in_progress task it leaves the task in
\* review.
C9_DirectCompletionEffects ==
    [][DirectHit =>
          LET b == resp'.req.body
              t == b.task_id
              n == IF b.deliverables.present THEN Len(b.deliverables.list) ELSE 0
              summary == IF b.summary \in {NULL, ""} THEN "Task finished"
                         ELSE b.summary
              old == Len(deliverables)
          IN  /\ resp'.code = 200
              /\ Len(deliverables') = old + n
              /\ SubSeq(deliverables', 1, old) = deliverables
              /\ \A i \in 1..n :
                    /\ deliverables'[old + i].task_id = t
                    /\ deliverables'[old + i].title = b.deliverables.list[i].title
              /\ resp'.data.deliverables_registered = n
              /\ AppendsOne(activities, activities')
              /\ Last(activities').activity_type = "completed"
              /\ Last(activities').task_id = t
              /\ Last(activities').message = summary
              /\ AppendsOne(events, events')
              /\ Last(events').type = "task_completed"
              /\ Last(events').task_id = t
              /\ Last(events').message[3] = summary
              /\ \A a \in Agents :
                    agents'[a] = IF a = tasks[t].assigned_agent_id
                                 THEN [agents[a] EXCEPT !.status = "standby"]
                                 ELSE agents[a]
              /\ sessions' = sessions
              /\ (b.status = "review" /\ tasks[t].status = "in_progress")
                    => tasks'[t].status = "review"]_vars

\* The first webhook asked for review of t2, which a3 was working on, with a
\* summary and no deliverables: t2 is in review, a3 is standby, one
\* activity and one event carry the summary.
C9_Witness ==
    /\ nreq = 1
    /\ resp.op = "webhook" /\ resp.code = 200
    /\ resp.req.body.task_id = "t2" /\ resp.req.body.status = "review"
    /\ tasks["t2"].status = "review"
    /\ agents["a3"].status = "standby"
    /\ deliverables = <<>>
    /\ Len(activities) = 1 /\ activities[1].message = "Built it"
    /\ Len(events) = 2 /\ events[2].message[3] = "Built it"

\* C10: a link request for an agent that has an active session is answered
\* 409 with one of the agent's active sessions, and a link request for an
\* unknown agent 404, both with the store unchanged and no gateway call; an
\* unlink request for an agent without an active session, or for an unknown
\* agent, is answered 404 with the store unchanged.
C10_LinkUnlinkErrors ==
    [][\A id \in AgentIds :
          /\ (Arrives("link", id) /\ id \notin Agents)
                => /\ resp'.id = nreq' /\ resp'.code = 404
                   /\ store' = store /\ gateway' = gateway
                   /\ inflight' = inflight
          /\ (Arrives("link", id) /\ id \in Agents
                /\ ActiveCount(id, sessions) > 0)
                => /\ resp'.id = nreq' /\ resp'.code = 409
                   /\ resp'.data.session \in 1..Len(sessions)
                   /\ sessions[resp'.data.session].agent_id = id
                   /\ sessions[resp'.data.session].status = "active"
                   /\ store' = store /\ gateway' = gateway
                   /\ inflight' = inflight
          /\ (Arrives("unlink", id)
                /\ (id \notin Agents \/ ActiveCount(id, sessions) = 0))
                => /\ resp'.id = nreq' /\ resp'.code = 404
                   /\ store' = store]_vars

\* a3 holds only an inactive session; unlinking it has been answered 404 and
\* the session table is as it was.
C10_Witness ==
    /\ resp.op = "unlink" /\ resp.code = 404 /\ resp.req = "a3"
    /\ Len(sessions) = 1
    /\ sessions[1].agent_id = "a3" /\ sessions[1].status = "inactive"
    /\ Len(events) = 2

\* The awaits on the gateway whose rejection ends a handler with an error:
\* connect in dispatch, link and planning POST, listSessions in link,
\* chat.send in planning POST.
AtGatewayAwait(p) ==
    \/ p.kind \in {"dispatch", "link", "plan"} /\ p.pc = "connect"
    \/ p.kind = "link" /\ p.pc = "list"
    \/ p.kind = "plan" /\ p.pc = "send"

\* C11: a step that brings a handler to one of these awaits changes no row
\* of the store; and when a handler that stands at one of them ends there,
\* it answers 503 (dispatch, link) or 500 (planning) and the step changes no
\* row of the store: the failed invocation has written nothing.
C11_GatewayUnavailable ==
    [][/\ \A p \in inflight' \ inflight : AtGatewayAwait(p) => store' = store
       /\ \A p \in inflight :
             (AtGatewayAwait(p) /\ \A q \in inflight' : q.id # p.id)
             => /\ resp'.id = p.id
                /\ resp'.code = IF p.kind = "plan" THEN 500 ELSE 503
                /\ store' = store]_vars

\* Planning of t1 was answered 500 after its chat.send had been issued: t1
\* has no planning session key, no planning messages and its first status.
C11_Witness ==
    /\ resp.op = "plan" /\ resp.code = 500 /\ resp.req = "t1"
    /\ \E i \in 1..Len(gwCalls) :
          /\ gwCalls[i].method = "chat.send"
          /\ gwCalls[i].sessionKey = <<"agent:main:planning:", "t1">>
    /\ tasks["t1"].planning_session_key = <<>>
    /\ tasks["t1"].planning_messages = <<>>
    /\ tasks["t1"].status = "inbox"

\* C12: a planning POST for a task that has a planning session key is
\* answered 400 at once, with no gateway call and the store (so the key, the
\* log and the status) unchanged; for a task that has none it is not
\* refused; and the step in which a handler passes from chat.send to the poll
\* loop is the one that stores the key "agent:main:planning:" + task id and a
\* log holding exactly the user prompt, the send being already issued.
C12_PlanningStartsOnce ==
    [][/\ \A t \in Tasks :
             Arrives("plan", t)
             => IF tasks[t].planning_session_key # <<>>
                THEN /\ resp'.id = nreq' /\ resp'.code = 400
                     /\ store' = store /\ gateway' = gateway
                     /\ inflight' = inflight
                ELSE /\ resp' = resp /\ store' = store
                     /\ \E p \in inflight' \ inflight :
                           p.pc \in {"connect", "send"}
       /\ \A p \in inflight' \ inflight :
             (p.kind = "plan" /\ p.pc = "poll" /\ p.locals.i = 0)
             => LET log == <<[role |-> "user",
                              content |-> PlanningPrompt(p.target)]>>
                    key == <<"agent:main:planning:", p.target>>
                IN  /\ \E q \in inflight : q.id = p.id /\ q.pc = "send"
                    /\ p.locals.messages = log
                    /\ tasks'[p.target].planning_session_key = key
                    /\ tasks'[p.target].planning_messages = log
                    /\ tasks'[p.target].status = "planning"
                    /\ \E i \in 1..Len(gwCalls) :
                          /\ gwCalls[i].method = "chat.send"
                          /\ gwCalls[i].sessionKey = key
                          /\ gwCalls[i].message = PlanningPrompt(p.target)]_vars

\* The second planning POST for t1 has been refused with 400: one chat.send
\* was issued and the log of t1 is the prompt of the first start.
C12_Witness ==
    /\ resp.op = "plan" /\ resp.code = 400 /\ resp.id = 2 /\ resp.req = "t1"
    /\ Len(SelectSeq(gwCalls, LAMBDA c : c.method = "chat.send")) = 1
    /\ tasks["t1"].planning_session_key = <<"agent:main:planning:", "t1">>
    /\ Len(tasks["t1"].planning_messages) >= 1
    /\ tasks["t1"].planning_messages[1].role = "user"

\* The texts of the assistant messages of a message list.
AssistantContents(list) ==
    {list[i].content : i \in {j \in 1..Len(list) : list[j].role = "assistant"}}

\* C13 (the loop is bounded): a planning handler in its poll loop has made
\* fewer than 30 queries; each of its steps makes one more query and either
\* ends the handler with an answer (200, or 500 when the message found is a
\* bare number, on which the question test throws after the log was
\* written) or leaves it in the loop, and the 30th query ends it.  When the
\* handler ends without an assistant message (the still-waiting note), the
\* step writes nothing, the session key is
\* set, the log it returns is the user prompt alone, and so is the persisted
\* log when the transcript holds no assistant message.  When it ends with an
\* assistant message, that message is one of the transcript and the
\* persisted log becomes the handler's log with it appended.
C13_PollStep ==
    \A p \in inflight :
       (p.kind = "plan" /\ p.pc = "poll")
       => /\ p.locals.i < 30
          /\ (p \notin inflight')
             => LET prompt == <<[role |-> "user",
                                 content |-> PlanningPrompt(p.target)]>>
                    key == <<"agent:main:planning:", p.target>>
                IN
                \/ /\ [p EXCEPT !.locals.i = p.locals.i + 1] \in inflight'
                   /\ p.locals.i + 1 < 30
                   /\ store' = store /\ resp' = resp
                \/ /\ \A q \in inflight' : q.id # p.id
                   /\ resp'.id = p.id /\ resp'.code = 500
                   /\ Len(tasks'[p.target].planning_messages) = 2
                   /\ SubSeq(tasks'[p.target].planning_messages, 1, 1) = prompt
                   /\ tasks'[p.target].planning_messages[2].content
                         \in AssistantContents(transcript[p.target])
                   /\ QuestionIn(ExtractJSON(
                         tasks'[p.target].planning_messages[2].content))
                         = "TypeError"
                   /\ tasks'[p.target].planning_session_key = key
                \/ /\ \A q \in inflight' : q.id # p.id
                   /\ resp'.id = p.id /\ resp'.code = 200
                   /\ resp'.data.success
                   /\ resp'.data.polls = p.locals.i + 1
                   /\ IF AssistantContents(resp'.data.messages) = {}
                      THEN /\ resp'.data.polls = 30
                           /\ resp'.data.note
                                 = "Planning started, waiting for response"
                           /\ resp'.data.messages = prompt
                           /\ store' = store
                           /\ tasks'[p.target].planning_session_key = key
                           /\ AssistantContents(transcript[p.target]) = {}
                                 => tasks'[p.target].planning_messages = prompt
                      ELSE /\ Len(resp'.data.messages) = 2
                           /\ SubSeq(resp'.data.messages, 1, 1) = prompt
                           /\ resp'.data.messages[2].content
                                 \in AssistantContents(transcript[p.target])
                           /\ tasks'[p.target].planning_messages
                                 = resp'.data.messages
                           /\ tasks'[p.target].planning_session_key = key

C14_GetReconciles ==
    [][/\ \A t \in Tasks :
             Arrives("getplan", t)
             => IF /\ tasks[t].planning_session_key # <<>>
                   /\ tasks[t].planning_messages # <<>>
                   /\ AssistantContents(tasks[t].planning_messages) = {}
                THEN /\ resp' = resp /\ store' = store
                     /\ \E p \in inflight' \ inflight :
                           p.locals.messages = tasks[t].planning_messages
                ELSE /\ resp'.id = nreq' /\ resp'.code = 200
                     /\ resp'.data.messages = tasks[t].planning_messages
                     /\ store' = store /\ gateway' = gateway
                     /\ inflight' = inflight
       /\ \A p \in inflight :
             (/\ GetPlanFetched(p, "ok")
              /\ AssistantContents(transcript[p.target]) # {})
             => /\ resp'.id = p.id /\ resp'.code = 200
                /\ Len(resp'.data.messages) = Len(p.locals.messages) + 1
                /\ SubSeq(resp'.data.messages, 1, Len(p.locals.messages))
                      = p.locals.messages
                /\ Last(resp'.data.messages).role = "assistant"
                /\ Last(resp'.data.messages).content
                      \in AssistantContents(transcript[p.target])
                /\ tasks'[p.target].planning_messages = resp'.data.messages]_vars

\* The question test of the handlers throws on the last assistant message of
\* the list.
Throws(list) ==
    HasAssistant(list)
    /\ QuestionIn(ExtractJSON(LastAssistant(list).content)) = "TypeError"

\* What is left of C14_GetReconciles when the reply is not one on which the
\* question test throws; when it is, the log is written all the same and
\* the answer is 500.
C14_ReconcilesUnlessThrown ==
    [][/\ \A t \in Tasks :
             Arrives("getplan", t)
             => IF /\ tasks[t].planning_session_key # <<>>
                   /\ tasks[t].planning_messages # <<>>
                   /\ AssistantContents(tasks[t].planning_messages) = {}
                THEN /\ resp' = resp /\ store' = store
                     /\ \E p \in inflight' \ inflight :
                           p.locals.messages = tasks[t].planning_messages
                ELSE /\ resp'.id = nreq'
                     /\ resp'.code
                           = IF Throws(tasks[t].planning_messages)
                             THEN 500 ELSE 200
                     /\ resp'.code = 200
                           => resp'.data.messages = tasks[t].planning_messages
                     /\ store' = store /\ gateway' = gateway
                     /\ inflight' = inflight
       /\ \A p \in inflight :
             (/\ GetPlanFetched(p, "ok")
              /\ AssistantContents(transcript[p.target]) # {})
             => /\ resp'.id = p.id
                /\ resp'.code = IF Throws(tasks'[p.target].planning_messages)
                                THEN 500 ELSE 200
                /\ resp'.code = 200
                      => resp'.data.messages
                            = tasks'[p.target].planning_messages
                /\ Len(tasks'[p.target].planning_messages)
                      = Len(p.locals.messages) + 1
                /\ SubSeq(tasks'[p.target].planning_messages, 1,
                          Len(p.locals.messages)) = p.locals.messages
                /\ Last(tasks'[p.target].planning_messages).role = "assistant"
                /\ Last(tasks'[p.target].planning_messages).content
                      \in AssistantContents(transcript[p.target])]_vars

\* While the planning POST for t1 is still polling, a GET has fetched the
\* agent's reply, stored it and returned it.
C14_Witness ==
    /\ resp.op = "getplan" /\ resp.code = 200 /\ resp.req = "t1"
    /\ \E p \in inflight : p.kind = "plan" /\ p.pc = "poll" /\ p.target = "t1"
    /\ Len(resp.data.messages) = 2
    /\ resp.data.messages[2].role = "assistant"
    /\ tasks["t1"].planning_messages = resp.data.messages

\* The step answers an authentic session-based webhook: no task_id, a
\* session id and a message with the completion marker and text after it.
LegacyHit ==
    /\ Answers("webhook")
    /\ Authentic(resp'.req)
    /\ resp'.req.body.parses
    /\ resp'.req.body.task_id \in {NULL, ""}
    /\ resp'.req.body.session_id # <<>>
    /\ resp'.req.body.message.marker \in {"TASK_COMPLETE:", "task_complete:"}
    /\ resp'.req.body.message.rest # <<>>

\* Rows of the session table that are active and carry the external id.
ActiveWithExternalId(sid) ==
    {i \in 1..Len(sessions) :
        sessions[i].status = "active" /\ sessions[i].openclaw_session_id = sid}

\* Tasks of an agent that are assigned or in progress.
OpenTasksOf(agentId) ==
    {t \in {"t1", "t2"} :
        /\ tasks[t].assigned_agent_id = agentId
        /\ tasks[t].status \in {"assigned", "in_progress"}}

NeitherShape(body) ==
    /\ body.task_id \in {NULL, ""}
    /\ \/ body.session_id = <<>>
       \/ body.message.marker = "" /\ body.message.rest = <<>>

\* The request body has the session-based shape and its message lacks the
\* completion marker or the text after it.
UnmarkedMessage(body) ==
    /\ body.task_id \in {NULL, ""}
    /\ body.session_id # <<>>
    /\ body.message.marker # "" \/ body.message.rest # <<>>
    /\ \/ body.message.marker \notin {"TASK_COMPLETE:", "task_complete:"}
       \/ body.message.rest = <<>>

\* The step answers an authentic webhook whose body is invalid input.
InvalidHit ==
    /\ Answers("webhook")
    /\ Authentic(resp'.req)
    /\ \/ ~resp'.req.body.parses
       \/ NeitherShape(resp'.req.body)
       \/ UnmarkedMessage(resp'.req.body)

\* C16: an authentic webhook whose body is malformed, or has neither task_id
\* nor both session_id and message, or has the session-based shape with a
\* message that does not match the completion marker, is answered 400 and
\* writes no task, agent, session, deliverable, activity or event row.
C16_InvalidInputRejected ==
    [][InvalidHit => resp'.code = 400 /\ store' = store]_vars

\* The part of C16 about bodies that parse: the answer is 400, with the
\* payload error for a body of neither shape and the format error for an
\* unmarked message, and the store is unchanged; a body that does not parse
\* leaves the store unchanged as well.
C16_ParsedInvalidInputRejected ==
    [][InvalidHit =>
        /\ store' = store
        /\ resp'.req.body.parses =>
              /\ resp'.code = 400
              /\ resp'.data.error =
                    IF NeitherShape(resp'.req.body) THEN "Invalid payload"
                    ELSE "Invalid completion message format"
    ]_vars

\* The step handles again the direct body that the previous request was
\* handled with: both are answered 200 and their bodies are equal.
ReplayHit ==
    /\ DirectHit
    /\ resp.op = "webhook" /\ resp.code = 200
    /\ resp.req.body = resp'.req.body

\* The last n rows of a log.
LastRows(log, n) == SubSeq(log, Len(log) - n + 1, Len(log))

\* C17: handling the same direct completion body once more leaves the task
\* in the status the previous handling left it in (and returns that status),
\* and extends each log by a copy of what the previous handling wrote: the
\* payload's deliverables again, one more completed activity and one more
\* task_completed event, so that k handlings leave k copies of each.
C17_ReplayAppendsAgain ==
    [][ReplayHit =>
        LET body == resp'.req.body
            n == IF body.deliverables.present
                 THEN Len(body.deliverables.list) ELSE 0
        IN  /\ resp'.code = 200
            /\ resp'.data.new_status = resp.data.new_status
            /\ tasks'[body.task_id].status = tasks[body.task_id].status
            /\ Len(deliverables') = Len(deliverables) + n
            /\ SubSeq(deliverables', 1, Len(deliverables)) = deliverables
            /\ LastRows(deliverables', n) = LastRows(deliverables, n)
            /\ AppendsOne(activities, activities')
            /\ Last(activities') = Last(activities)
            /\ Last(activities').activity_type = "completed"
            /\ AppendsOne(events, events')
            /\ Last(events') = Last(events)
            /\ Last(events').type = "task_completed"
    ]_vars

\* The same body with two deliverables has been handled twice: the task is
\* in review as after the first handling, and there are four deliverables,
\* two equal activities and two equal task_completed events.
C17_Witness ==
    /\ resp.op = "webhook" /\ resp.code = 200 /\ resp.id = 2
    /\ resp.req.body.task_id = "t1"
    /\ Len(resp.req.body.deliverables.list) = 2
    /\ tasks["t1"].status = "review" /\ tasks["t1"].updated_at = 1
    /\ Len(deliverables) = 4
    /\ deliverables[1] = deliverables[3] /\ deliverables[2] = deliverables[4]
    /\ Len(activities) = 2 /\ activities[1] = activities[2]
    /\ Len(events) = 3 /\ events[2] = events[3]
    /\ events[3].type = "task_completed"

\* C18: when an agent reports completion with a TASK_COMPLETE message (the
\* session-based completion) and the report is accepted, the task the
\* report is resolved to is in review afterwards and the agent is in
\* standby.
C18_CompletionMovesToReview ==
    [][LegacyHit /\ resp'.code = 200 =>
        /\ tasks'[resp'.data.task_id].status = "review"
        /\ agents'[resp'.data.agent_id].status = "standby"
    ]_vars

\* Every row of the session table is still there, the same but for a status
\* that may have gone from active to inactive.
RowsKept ==
    /\ Len(sessions') >= Len(sessions)
    /\ \A i \in 1..Len(sessions) :
          \/ sessions'[i] = sessions[i]
          \/ /\ sessions[i].status = "active"
             /\ sessions'[i] = [sessions[i] EXCEPT !.status = "inactive"]

\* Requests do not overlap: at most one handler is suspended at an await.
Serial == Cardinality(inflight) <= 1

\* Every session row that has a later row of the same agent is inactive.
PriorSessionsInactive ==
    \A i, j \in 1..Len(sessions) :
       i < j /\ sessions[i].agent_id = sessions[j].agent_id =>
          sessions[i].status = "inactive"

\* C19: no step deletes a session row; a successful unlink turns exactly one
\* active session of its agent inactive, changes no other row and appends
\* one disconnect event; a link request goes on to create a session only if
\* its check found no active session of the agent, and the session it
\* creates is one appended active row of that agent; so, when requests do
\* not overlap, every session is created after the earlier sessions of its
\* agent became inactive.
C19_SessionLifecycle ==
    /\ [][/\ RowsKept
          /\ Answers("unlink") /\ resp'.code = 200 =>
                /\ \E i \in 1..Len(sessions) :
                      /\ sessions[i].agent_id = resp'.req
                      /\ sessions[i].status = "active"
                      /\ sessions' = [sessions EXCEPT ![i].status = "inactive"]
                /\ ActiveCount(resp'.req, sessions')
                      = ActiveCount(resp'.req, sessions) - 1
                /\ AppendsOne(events, events')
                /\ Last(events').type = "agent_status_changed"
                /\ Last(events').agent_id = resp'.req
                /\ Last(events').message = <<"disconnected from OpenClaw Gateway">>
          /\ \A p \in inflight' \ inflight :
                p.kind = "link" /\ p.id = nreq' /\ nreq' = nreq + 1 =>
                   ActiveCount(p.target, sessions) = 0
          /\ Answers("link") /\ resp'.code = 201 =>
                /\ \E p \in inflight \ inflight' :
                      p.kind = "link" /\ p.id = resp'.id /\ p.target = resp'.req
                /\ AppendsOne(sessions, sessions')
                /\ Last(sessions').agent_id = resp'.req
                /\ Last(sessions').status = "active"
          /\ Answers("link") /\ resp'.code # 201 => sessions' = sessions
         ]_vars
    /\ (PriorSessionsInactive /\ []Serial => []PriorSessionsInactive)

\* a3, linked, was unlinked and then linked again: the first session row is
\* kept as inactive, the second is active, and the events record the link,
\* the disconnect and the second link.
C19_Witness ==
    /\ resp.op = "link" /\ resp.code = 201 /\ resp.req = "a3" /\ resp.id = 2
    /\ Len(sessions) = 2
    /\ sessions[1].status = "inactive" /\ sessions[1].agent_id = "a3"
    /\ sessions[2].status = "active" /\ sessions[2].agent_id = "a3"
    /\ Len(events) = 3
    /\ events[2].message = <<"disconnected from OpenClaw Gateway">>
    /\ events[3].message = <<"connected to OpenClaw Gateway">>

\* Every row of `old` is at the same place in `new`.
Extends(old, new) ==
    Len(new) >= Len(old) /\ \A i \in 1..Len(old) : new[i] = old[i]

\* C20: whatever step is taken (of dispatch, link, unlink, planning or the
\* completion webhook), every event, activity and deliverable row of the
\* state before it is in the state after it, unchanged and at its place:
\* the three logs are only ever extended.
C20_LogsAppendOnly ==
    [][/\ Extends(events, events')
       /\ Extends(activities, activities')
       /\ Extends(deliverables, deliverables')]_vars

\* A dispatch and then a completion with two deliverables have been logged:
\* the dispatch's events and activity are still the first rows.
C20_Witness ==
    /\ Len(events) = 3
    /\ events[1].type = "agent_status_changed"
    /\ events[2].type = "task_dispatched" /\ events[3].type = "task_completed"
    /\ Len(activities) = 2
    /\ activities[1].activity_type = "status_changed"
    /\ activities[2].activity_type = "completed"
    /\ Len(deliverables) = 2

\* C21: a dispatch request for an unknown task is answered 404, for a task
\* with no assigned agent 400, and for a task whose assigned agent has no row
\* 404, each on arrival, with no gateway call issued, no handler left
\* suspended and no row of any table created or changed.
C21_DispatchPreconditions ==
    [][\A id \in {"t1", "t2", "tX"} :
          Arrives("dispatch", id) =>
             LET unknown == id \notin {"t1", "t2"}
                 unassigned == ~unknown /\ tasks[id].assigned_agent_id \in {NULL, ""}
                 orphan == /\ ~unknown /\ ~unassigned
                           /\ tasks[id].assigned_agent_id \notin {"a1", "a2", "a3"}
             IN  unknown \/ unassigned \/ orphan =>
                    /\ resp'.id = nreq' /\ resp'.op = "dispatch"
                    /\ resp'.code = IF unassigned THEN 400 ELSE 404
                    /\ gwCalls' = gwCalls
                    /\ inflight' = inflight
                    /\ store' = store
    ]_vars

\* After a first dispatch that went through, a dispatch of a task whose
\* assigned agent has no row was refused with 404.
C21_Witness ==
    /\ resp.op = "dispatch" /\ resp.code = 404 /\ resp.id = 2
    /\ resp.req = "t1" /\ tasks["t1"].assigned_agent_id = "aX"
    /\ tasks["t2"].status = "in_progress"
    /\ Len(gwCalls) = 2 /\ inflight = {}

\* C22: when no webhook secret is configured (absent or empty), a webhook
\* request is never answered 401, whatever its signature header (absent, a
\* digest under some secret, the digest of another body); a direct body
\* about an existing task is answered 200, the task takes the requested
\* status when that is further along the ordering, and the assigned agent,
\* when it has a row, is set to standby.
C22_NoSecretNoCheck ==
    [][Answers("webhook") /\ webhookSecret \in {NULL, ""} =>
          LET b == resp'.req.body
              t == b.task_id
              target == IF b.status \in {"testing", "review", "done"}
                        THEN b.status ELSE "testing"
          IN  /\ resp'.code # 401
              /\ b.parses /\ t \in {"t1", "t2"} =>
                    /\ resp'.code = 200
                    /\ tasks'[t].status =
                          IF Rank(target) > Rank(tasks[t].status)
                          THEN target ELSE tasks[t].status
                    /\ tasks[t].assigned_agent_id \in {"a1", "a2", "a3"} =>
                          agents'[tasks[t].assigned_agent_id].status = "standby"
    ]_vars

\* With no secret configured, a request signed under a secret the server
\* never had moved t2 to review and set a3, which was working, to standby.
C22_Witness ==
    /\ webhookSecret = NULL
    /\ resp.op = "webhook" /\ resp.code = 200 /\ resp.id = 1
    /\ resp.req.signature = Hmac("s2", resp.req.body)
    /\ resp.req.body.task_id = "t2"
    /\ tasks["t2"].status = "review"
    /\ agents["a3"].status = "standby"

\* The step is one of a dispatch handler: the arrival of a dispatch request
\* or the resumption of a suspended dispatch handler.
DispatchStep ==
    \/ \E id \in {"t1", "t2", "tX"} : Arrives("dispatch", id)
    \/ \E p \in inflight \ inflight' : p.kind = "dispatch"

\* C23: no step of the completion webhook and no step of a dispatch handler
\* changes an existing session row, so a session stays active through
\* dispatch and completion; and when a dispatch handler reaches its send for
\* an agent that has an active session, it inserts no session row and no
\* event, and its chat.send goes to agent:main: followed by the external id
\* of an active session of that agent.
C23_SessionReuse ==
    [][/\ Answers("webhook") => sessions' = sessions
       /\ DispatchStep =>
             /\ Len(sessions') >= Len(sessions)
             /\ \A i \in 1..Len(sessions) : sessions'[i] = sessions[i]
       /\ \A p \in inflight' \ inflight :
             (/\ p.kind = "dispatch" /\ p.pc = "send"
              /\ ActiveCount(p.locals.agent, sessions) > 0) =>
                /\ sessions' = sessions
                /\ events' = events
                /\ AppendsOne(gwCalls, gwCalls')
                /\ Last(gwCalls').method = "chat.send"
                /\ \E i \in 1..Len(sessions) :
                      /\ sessions[i].agent_id = p.locals.agent
                      /\ sessions[i].status = "active"
                      /\ Last(gwCalls').sessionKey =
                            <<"agent:main:">> \o sessions[i].openclaw_session_id
    ]_vars

\* a3 was linked to the session ext-1 and then a task was dispatched to it:
\* there is still one session row, active, the dispatch went to
\* agent:main:ext-1, and no session-created event was logged.
C23_Witness ==
    /\ resp.op = "dispatch" /\ resp.code = 200 /\ resp.id = 2
    /\ Len(sessions) = 1 /\ sessions[1].status = "active"
    /\ sessions[1].agent_id = "a3"
    /\ sessions[1].openclaw_session_id = <<"ext-1">>
    /\ Last(gwCalls).method = "chat.send"
    /\ Last(gwCalls).sessionKey = <<"agent:main:", "ext-1">>
    /\ Len(events) = 2
    /\ events[1].message = <<"connected to OpenClaw Gateway">>
    /\ events[2].type = "task_dispatched"

\* The texts of the assistant messages of a transcript, in transcript order.
RECURSIVE AssistantTextsInOrder(_)
AssistantTextsInOrder(list) ==
    IF list = <<>> THEN <<>>
    ELSE IF Head(list).role = "assistant"
         THEN <<Head(list).content>> \o AssistantTextsInOrder(Tail(list))
         ELSE AssistantTextsInOrder(Tail(list))

\* The step ends the poll loop of a planning POST on an assistant message:
\* the request is answered 200 and the task's log has grown.
PollFinds ==
    /\ Answers("plan") /\ resp'.code = 200
    /\ Len(tasks'[resp'.req].planning_messages)
          > Len(tasks[resp'.req].planning_messages)

FirstThatParses(text) ==
    LET results == <<ParseDirect(text), ParseCodeBlock(text), ParseBraces(text)>>
        parsing == {i \in 1..3 : results[i] # SyntaxError}
    IN  IF parsing = {} THEN JsonNull ELSE results[Min(parsing)]

\* The reply the gateway holds for a planning session: its last assistant
\* message.
ReplyOf(taskId) == LastAssistant(AssistantMessages(transcript[taskId])).content

HasReply(taskId) == HasAssistant(AssistantMessages(transcript[taskId]))

\* How the claim says a reply is reported by startPlanning: with its parsed
\* question when the extracted object has one, as a raw response when
\* nothing is extracted or the object has no question.
ReportedByStart(reply) ==
    /\ QuestionIn(FirstThatParses(reply)) = "no"
       => /\ resp'.code = 200 /\ resp'.data.success
          /\ resp'.data.rawResponse = reply
          /\ resp'.data.currentQuestion = JsonNull
    /\ QuestionIn(FirstThatParses(reply)) = "yes"
       => /\ resp'.code = 200 /\ resp'.data.success
          /\ resp'.data.rawResponse = <<>>
          /\ resp'.data.currentQuestion = FirstThatParses(reply)

\* The same for getPlanningState: a null currentQuestion in the first case.
ReportedByGet(reply) ==
    /\ QuestionIn(FirstThatParses(reply)) = "no"
       => resp'.code = 200 /\ resp'.data.currentQuestion = JsonNull
    /\ QuestionIn(FirstThatParses(reply)) = "yes"
       => resp'.code = 200
          /\ resp'.data.currentQuestion = FirstThatParses(reply)

C26_CompletionNotOverwritten ==
    [][\A p \in inflight :
          (/\ DispatchSent(p, "ok")
           /\ tasks[p.target].updated_at > p.locals.now
           /\ tasks[p.target].status \in {"testing", "review", "done"})
          => /\ tasks'[p.target].status = tasks[p.target].status
             /\ agents'[p.locals.agent].status = "standby"]_vars

\* The task was dispatched to the agent and no completion webhook for the
\* task has been handled since: the events table has a task_dispatched row
\* of the two with no task_completed row of the task after it.
Outstanding(taskId, agentId) ==
    \E i \in 1..Len(events) :
       /\ events[i].type = "task_dispatched"
       /\ events[i].task_id = taskId /\ events[i].agent_id = agentId
       /\ \A j \in (i + 1)..Len(events) :
             ~(events[j].type = "task_completed" /\ events[j].task_id = taskId)

\* C27: under operations executed one after the other, an agent with a task
\* that was dispatched to it and has no completion handled since is working;
\* so a completion webhook for one task of the agent leaves it working while
\* another task dispatched to it is still in progress.
C27_WorkingWhileOutstanding ==
    \A a \in Agents, t \in Tasks :
       Outstanding(t, a) => agents[a].status = "working"

\* C28: in every reachable state two active session rows of different agents
\* carry different external session ids, whether the ids were derived from
\* the agents' names or supplied on link; so the session-based completion
\* lookup finds the rows of at most one agent.
C28_DistinctExternalIds ==
    \A i, j \in 1..Len(sessions) :
       (/\ sessions[i].status = "active" /\ sessions[j].status = "active"
        /\ sessions[i].agent_id # sessions[j].agent_id)
       => sessions[i].openclaw_session_id # sessions[j].openclaw_session_id

\* C29: with one planning POST for a task and any number of planning GETs
\* for it, interleaved in any way, the persisted log of the task is empty,
\* or the user prompt alone, or the user prompt followed by one assistant
\* message of the transcript: the prompt is not lost and no assistant
\* message is appended twice.
C29_LogShape ==
    \A t \in Tasks :
       LET log == tasks[t].planning_messages
           prompt == Message("user", PlanningPrompt(t))
       IN  \/ log = <<>>
           \/ log = <<prompt>>
           \/ /\ Len(log) = 2 /\ log[1] = prompt
              /\ log[2].role = "assistant"
              /\ log[2].content \in AssistantContents(transcript[t])

\* The POST has found the agent's reply, written the log and answered, while
\* two GETs that read the log before that write, when it held the prompt
\* alone, are waiting for the transcript.
C29_Witness ==
    /\ resp.op = "plan" /\ resp.code = 200 /\ resp.id = 1
    /\ Len(resp.data.messages) = 2
    /\ tasks["t1"].planning_messages = resp.data.messages
    /\ Cardinality({p \in inflight : /\ p.kind = "getplan"
                                     /\ Len(p.locals.messages) = 1}) = 2

\* The chat.send calls that carried the planning prompt of a task.
PromptSends(taskId) ==
    {i \in 1..Len(gwCalls) :
        /\ gwCalls[i].method = "chat.send"
        /\ gwCalls[i].sessionKey = PlanningSessionKey(taskId)
        /\ gwCalls[i].message = PlanningPrompt(taskId)}

\* C30: however the planning POSTs for a task interleave, the planning
\* prompt of the task is sent to the gateway at most once.
C30_PromptSentOnce ==
    \A t \in Tasks : Cardinality(PromptSends(t)) <= 1

\* C31: when link, unlink and dispatch requests are handled one at a time,
\* each to its response before the next arrives, every reachable state has
\* at most one handler in progress and at most one active session row per
\* agent, whatever the requests and the outcomes of the gateway calls.
C31_OneActiveSessionWhenSerial ==
    /\ Cardinality(inflight) <= 1
    /\ \A a \in Agents : ActiveCount(a, sessions) <= 1

\* a3 was linked, unlinked, and then given a new session by the dispatch of
\* t1, which is waiting for chat.send: of its two session rows the first is
\* inactive and the second active.
C31_Witness ==
    /\ Len(sessions) = 2
    /\ sessions[1].agent_id = "a3" /\ sessions[1].status = "inactive"
    /\ sessions[2].agent_id = "a3" /\ sessions[2].status = "active"
    /\ \E p \in inflight : p.kind = "dispatch" /\ p.pc = "send" /\ p.target = "t1"
    /\ nreq = 3

====
